---------------------------- MODULE Spec2Model ----------------------------
(***************************************************************************)
(* Model of the Research Aggregator of linkedin-post-generator:            *)
(* WebResearchTool in src/src/linkedin_post/tools/web_research.py.         *)
(*                                                                         *)
(* Python strings are TLA+ strings, taken apart character by character     *)
(* with Len, SubSeq and \o.  A Python value that may be a str, None or an  *)
(* int is a record [t, v]; a call that may raise returns a record           *)
(* [raised, value].  Relevance scores are kept in half-point units, so     *)
(* that 1.0 is 2 and 0.5 is 1.                                             *)
(***************************************************************************)
EXTENDS Integers, Sequences, FiniteSets, TLC

VARIABLES
    pc,            \* position of the running call
    topic,         \* _run's topic argument
    max_results,   \* _run's max_results argument
    general,       \* what the backend answered to the general web query
    expert,        \* what the backend answered to the expert-analysis query
    news,          \* what the backend answered to the news query
    web_results,   \* _run's local web_results
    news_results,  \* _run's local news_results
    output,        \* the object _run serialises and returns
    raised,        \* TRUE when an exception left _run
    args,          \* arguments of a helper applied on its own
    ret,           \* what that helper returned
    browser,       \* the Chrome instance of a scraper: "none", "open", "quit"
    quit_calls,    \* how often browser.quit() was called
    loaded,        \* the urls given to browser.get, in order
    keys_sent      \* what send_keys typed into the login form, in order

vars == <<pc, topic, max_results, general, expert, news, web_results,
          news_results, output, raised, args, ret, browser, quit_calls,
          loaded, keys_sent>>

----------------------------------------------------------------------------
(* Bounds of the model.                                                    *)

MaxContentWords == 2
MaxTopicWords == 2
MaxGeneralHits == 2
MaxExpertHits == 1
MaxNewsHits == 1
MaxResultsArg == 3
MaxFindingResults == 3
MaxKeywordResults == 3
MaxUrls == 15
MaxSummaryWeb == 2
MaxSummaryNews == 1
MaxHashSeed == 2
MaxStubHits == 5
MaxPosts == 4
MaxPageElements == 2
MaxScanWeb == 9
MaxScanNews == 2

----------------------------------------------------------------------------
(* Python values.                                                          *)

PyStr(s) == [t |-> "str", v |-> s]
PyNone == [t |-> "none", v |-> ""]
PyInt(digits) == [t |-> "int", v |-> digits]

\* bool(x): None, "" and 0 are falsy.
Truthy(x) ==
    CASE x.t = "str" -> x.v # ""
      [] x.t = "int" -> x.v # "0"
      [] OTHER -> FALSE

Return(v) == [raised |-> FALSE, value |-> v]
Raise(msg) == [raised |-> TRUE, value |-> msg]

----------------------------------------------------------------------------
(* Python's str methods, character by character.                           *)

Char(s, i) == SubSeq(s, i, i)

UpperCase == "ABCDEFGHIJKLMNOPQRSTUVWXYZ"
LowerCase == "abcdefghijklmnopqrstuvwxyz"
Whitespace == {" ", "\t", "\n"}

\* The lower-case letter of each upper-case letter.
LowerOf == [c \in {Char(UpperCase, i) : i \in 1..Len(UpperCase)} |->
              Char(LowerCase, CHOOSE i \in 1..Len(UpperCase) : Char(UpperCase, i) = c)]

Letters ==
    {Char(LowerCase, i) : i \in 1..Len(LowerCase)}
    \cup {Char(UpperCase, i) : i \in 1..Len(UpperCase)}

LowerChar(c) == IF c \in DOMAIN LowerOf THEN LowerOf[c] ELSE c

IsAlphaChar(c) == c \in Letters

\* s.lower(), one half of s after the other.
RECURSIVE lower(_)
lower(s) ==
    IF Len(s) = 0 THEN ""
    ELSE IF Len(s) = 1 THEN LowerChar(s)
    ELSE lower(SubSeq(s, 1, Len(s) \div 2))
         \o lower(SubSeq(s, Len(s) \div 2 + 1, Len(s)))

\* sub in s
Contains(sub, s) ==
    \E i \in 0..(Len(s) - Len(sub)) : SubSeq(s, i + 1, i + Len(sub)) = sub

\* s.find(sub, start): the first index (from 1) at or after start, 0 if none.
Find(sub, s, start) ==
    LET I == {i \in start..(Len(s) - Len(sub) + 1) :
                 SubSeq(s, i, i + Len(sub) - 1) = sub}
    IN  IF I = {} THEN 0 ELSE CHOOSE i \in I : \A j \in I : i <= j

\* s.split(sep) for a non-empty separator: empty pieces are kept.
RECURSIVE split_on(_, _)
split_on(s, sep) ==
    LET i == Find(sep, s, 1)
    IN  IF i = 0 THEN <<s>>
        ELSE <<SubSeq(s, 1, i - 1)>>
             \o split_on(SubSeq(s, i + Len(sep), Len(s)), sep)

\* The least and the greatest of a non-empty set of integers.
Min(S) == CHOOSE i \in S : \A j \in S : i <= j
Max(S) == CHOOSE i \in S : \A j \in S : i >= j

\* s.lstrip(chars), s.rstrip(chars), s.strip(chars) for a set of characters:
\* s from its first character outside chars on, s up to its last one.
lstrip(s, chars) ==
    LET kept == {i \in 1..Len(s) : Char(s, i) \notin chars}
    IN  IF kept = {} THEN "" ELSE SubSeq(s, Min(kept), Len(s))

rstrip(s, chars) ==
    LET kept == {i \in 1..Len(s) : Char(s, i) \notin chars}
    IN  IF kept = {} THEN "" ELSE SubSeq(s, 1, Max(kept))

strip(s, chars) == rstrip(lstrip(s, chars), chars)

\* The first index from i on at which s has a whitespace character, Len(s) + 1
\* if there is none.
word_end(s, i) ==
    Min({j \in i..Len(s) : Char(s, j) \in Whitespace} \cup {Len(s) + 1})

\* s.split(): the maximal runs of non-whitespace characters, in order.  A run
\* starts at a non-whitespace character that is the first of s or follows a
\* whitespace character; the k-th word is the run at the k-th start.
split(s) ==
    LET starts == {i \in 1..Len(s) :
                      /\ Char(s, i) \notin Whitespace
                      /\ i = 1 \/ Char(s, i - 1) \in Whitespace}
        start(k) == CHOOSE i \in starts :
                        Cardinality({j \in starts : j < i}) = k - 1
    IN  IF starts = {} THEN <<>>
        ELSE [k \in 1..Cardinality(starts) |->
                 SubSeq(s, start(k), word_end(s, start(k)) - 1)]

\* s.isalpha()
isalpha(s) == s # "" /\ \A i \in 1..Len(s) : IsAlphaChar(Char(s, i))

\* sep.join(parts), one half of parts after the other.
RECURSIVE join(_, _)
join(sep, parts) ==
    IF parts = <<>> THEN ""
    ELSE IF Len(parts) = 1 THEN parts[1]
    ELSE join(sep, SubSeq(parts, 1, Len(parts) \div 2))
         \o sep \o join(sep, SubSeq(parts, Len(parts) \div 2 + 1, Len(parts)))

\* The sequences over S of length at most n.
SeqUpTo(S, n) == UNION {[1..k -> S] : k \in 0..n}

\* s back to front.
Reverse(s) ==
    IF Len(s) = 0 THEN <<>> ELSE [i \in 1..Len(s) |-> s[Len(s) + 1 - i]]

\* The k-th least member of a set of integers.
Nth(S, k) == CHOOSE i \in S : Cardinality({j \in S : j < i}) = k - 1

\* The entries of f at the indices in S, in the order of the indices.
Pick(f, S) ==
    IF S = {} THEN <<>> ELSE [k \in 1..Cardinality(S) |-> f[Nth(S, k)]]

\* The members of s, each once, in the order they first occur: the order in
\* which a dict keeps its keys.
insertion_order(s) ==
    Pick(s, {i \in 1..Len(s) : \A j \in 1..(i - 1) : s[j] # s[i]})

\* The sequences of seqs one after the other.
RECURSIVE Flatten(_)
Flatten(seqs) ==
    IF Len(seqs) = 0 THEN <<>>
    ELSE IF Len(seqs) = 1 THEN seqs[1]
    ELSE Flatten(SubSeq(seqs, 1, Len(seqs) \div 2))
         \o Flatten(SubSeq(seqs, Len(seqs) \div 2 + 1, Len(seqs)))

----------------------------------------------------------------------------
(* _calculate_relevance, web_research.py lines 142-161.                    *)

bonus_keywords ==
    <<"2025", "2024", "2023", "trend", "growth", "increase", "statistics",
      "data", "report">>

\* The two loops of _calculate_relevance: the score after the first n entries
\* of words, each found in content_lower adding step.
score_loop(words, n, content_lower, step) ==
    step * Cardinality({i \in 1..n : Contains(words[i], content_lower)})

\* _calculate_relevance matching against the content as it is written, not
\* against its lower-case form.
_calculate_relevance_cased(content, topic_) ==
    IF ~Truthy(content) THEN Return(0)
    ELSE IF content.t # "str"
    THEN Raise("'int' object has no attribute 'lower'")
    ELSE LET topic_words == split(lower(topic_))
         IN  Return(score_loop(topic_words, Len(topic_words), content.v, 2)
                    + score_loop(bonus_keywords, Len(bonus_keywords),
                                 content.v, 1))

\* _calculate_relevance adding 0.5 for a topic word as for a bonus keyword.
_calculate_relevance_flat(content, topic_) ==
    IF ~Truthy(content) THEN Return(0)
    ELSE IF content.t # "str"
    THEN Raise("'int' object has no attribute 'lower'")
    ELSE LET content_lower == lower(content.v)
             topic_words == split(lower(topic_))
         IN  Return(score_loop(topic_words, Len(topic_words), content_lower, 1)
                    + score_loop(bonus_keywords, Len(bonus_keywords),
                                 content_lower, 1))

_calculate_relevance(content, topic_) ==
    IF ~Truthy(content) THEN Return(0)
    ELSE IF content.t # "str"
    THEN Raise("'int' object has no attribute 'lower'")
    ELSE LET content_lower == lower(content.v)
             topic_words == split(lower(topic_))
         IN  Return(score_loop(topic_words, Len(topic_words), content_lower, 2)
                    + score_loop(bonus_keywords, Len(bonus_keywords),
                                 content_lower, 1))

----------------------------------------------------------------------------
(* Raw hits of the search backend and the formatting of _search_web and    *)
(* _search_news, web_research.py lines 83-140.                             *)

\* A key a hit does not carry.
Missing == [t |-> "missing", v |-> ""]

\* result.get(key, "")
Get(result, key) == IF result[key].t = "missing" THEN PyStr("") ELSE result[key]

\* s[:n]
Slice(s, n) ==
    IF n >= 0 THEN SubSeq(s, 1, IF n < Len(s) THEN n ELSE Len(s))
    ELSE SubSeq(s, 1, IF Len(s) + n > 0 THEN Len(s) + n ELSE 0)

Range(s) == {s[i] : i \in 1..Len(s)}

\* The dict of lines 100-106, given the relevance already computed.
FormatWeb(result, relevance) ==
    [title |-> Get(result, "title"), content |-> Get(result, "snippet"),
     url |-> Get(result, "link"), type |-> "web_search",
     relevance |-> relevance]

\* The dict of lines 126-134.
FormatNews(result, relevance) ==
    [title |-> Get(result, "title"), content |-> Get(result, "snippet"),
     url |-> Get(result, "link"), source |-> Get(result, "source"),
     date |-> Get(result, "date"), type |-> "news", relevance |-> relevance]

\* The for loops of lines 98-107 and 124-135 over hits[1..n]: the dict-shaped
\* hits formatted in order, or the exception _calculate_relevance raised.
format_loop(hits, n, topic_, kind) ==
    LET dicts == {i \in 1..n : hits[i].isdict}
        rel == [i \in dicts |->
                   _calculate_relevance(Get(hits[i], "snippet"), topic_)]
        failed == {i \in dicts : rel[i].raised}
        formatted == [i \in dicts |->
                         IF kind = "news" THEN FormatNews(hits[i], rel[i].value)
                         ELSE FormatWeb(hits[i], rel[i].value)]
    IN  IF failed # {} THEN rel[Min(failed)]
        ELSE Return(Pick(formatted, dicts))

\* A sort that is not stable: ascending, then reversed, which turns results
\* of equal relevance around.
sort_ascending(results) ==
    LET n == Len(results)
        place(i) ==
            Cardinality({j \in 1..n :
                \/ results[j].relevance < results[i].relevance
                \/ results[j].relevance = results[i].relevance /\ j < i}) + 1
    IN  IF n = 0 THEN <<>>
        ELSE [k \in 1..n |-> results[CHOOSE i \in 1..n : place(i) = k]]

sort_reversed(results) ==
    Reverse(sort_ascending(results))

\* list.sort(key=relevance, reverse=True): stable, so results of equal
\* relevance keep their order.  A result goes behind every one that scores
\* more and behind the earlier ones that score the same.
sort_by_relevance(results) ==
    LET n == Len(results)
        place(i) ==
            Cardinality({j \in 1..n :
                \/ results[j].relevance > results[i].relevance
                \/ results[j].relevance = results[i].relevance /\ j < i}) + 1
    IN  IF n = 0 THEN <<>>
        ELSE [k \in 1..n |-> results[CHOOSE i \in 1..n : place(i) = k]]

\* Lines 96-111 of _search_web, once both queries have returned.
combine_web(results, expert_results, topic_, max_results_) ==
    LET all_results ==
            format_loop(Slice(results \o expert_results, max_results_),
                        Len(Slice(results \o expert_results, max_results_)),
                        topic_, "web_search")
    IN  IF all_results.raised THEN <<>>
        ELSE Slice(sort_by_relevance(all_results.value), max_results_)

\* format_news cut to max_results, as _search_web cuts the web results.
format_news_truncated(results, topic_) ==
    LET formatted_results == format_loop(results, Len(results), topic_, "news")
    IN  IF formatted_results.raised THEN <<>>
        ELSE Slice(formatted_results.value, max_results)

\* Lines 123-140 of _search_news, once the query has returned.
format_news(results, topic_) ==
    LET formatted_results == format_loop(results, Len(results), topic_, "news")
    IN  IF formatted_results.raised THEN <<>> ELSE formatted_results.value

----------------------------------------------------------------------------
(* _extract_key_findings, web_research.py lines 163-182.                   *)

finding_keywords(topic_) ==
    <<lower(topic_), "trend", "growth", "increase", "innovation", "market",
      "adoption">>

\* is_key_sentence looking for the keywords in the sentence as it is written.
is_key_sentence_cased(sentence, topic_) ==
    /\ Len(sentence) > 30
    /\ \E k \in Range(finding_keywords(topic_)) : Contains(k, sentence)

\* The condition of lines 173-175.
is_key_sentence(sentence, topic_) ==
    /\ Len(sentence) > 30
    /\ \E k \in Range(finding_keywords(topic_)) : Contains(k, lower(sentence))

\* The loop of lines 172-180 from sentence i on; it ends early at the break.
RECURSIVE sentence_loop(_, _, _, _)
sentence_loop(sentences, i, findings, topic_) ==
    IF i > Len(sentences) THEN findings
    ELSE IF ~is_key_sentence(sentences[i], topic_)
    THEN sentence_loop(sentences, i + 1, findings, topic_)
    ELSE LET clean_sentence == rstrip(strip(sentences[i], Whitespace), {"."})
         IN  IF clean_sentence \in Range(findings)
             THEN sentence_loop(sentences, i + 1, findings, topic_)
             ELSE IF Len(findings) + 1 >= 6
             THEN Append(findings, clean_sentence)
             ELSE sentence_loop(sentences, i + 1,
                                Append(findings, clean_sentence), topic_)

\* The loop of lines 167-180 over results[1..n]; len(content) raises on a
\* content that is no str.
RECURSIVE result_loop(_, _, _)
result_loop(results, n, topic_) ==
    IF n = 0 THEN Return(<<>>)
    ELSE LET before == result_loop(results, n - 1, topic_)
             content == results[n].content
         IN  IF before.raised THEN before
             ELSE IF content.t # "str"
             THEN Raise("object of type 'NoneType' has no len()")
             ELSE IF Len(content.v) > 50
             THEN Return(sentence_loop(split_on(content.v, ". "), 1,
                                       before.value, topic_))
             ELSE before

\* _extract_key_findings returning findings as the loops left it, without the
\* cut of line 182.
_extract_key_findings_uncut(results, topic_) ==
    result_loop(Slice(results, 8), Len(Slice(results, 8)), topic_)

\* _extract_key_findings scanning every result, not the first 8 only.
_extract_key_findings_unbounded(results, topic_) ==
    LET findings == result_loop(results, Len(results), topic_)
    IN  IF findings.raised THEN findings ELSE Return(Slice(findings.value, 6))

_extract_key_findings(results, topic_) ==
    LET findings == result_loop(Slice(results, 8), Len(Slice(results, 8)), topic_)
    IN  IF findings.raised THEN findings ELSE Return(Slice(findings.value, 6))

----------------------------------------------------------------------------
(* _extract_trending_keywords, web_research.py lines 184-202.              *)

\* What an f-string prints for a value: None prints as "None".
Format(x) == IF x.t = "none" THEN "None" ELSE x.v

keyword_punctuation ==
    {".", ",", "!", "?", "(", ")", "[", "]", "{", "}", "\"", "'", "-"}

stopwords ==
    {"this", "that", "with", "from", "they", "have", "been", "will", "would",
     "could", "should", "there", "their", "where"}

\* The condition of lines 194-197 on a stripped word.
is_keyword(word) == Len(word) > 4 /\ isalpha(word) /\ word \notin stopwords

\* The loop of lines 192-198 over words[1..n], from the counts so far.  The
\* dict is kept as the sequence of its items in insertion order: a word it
\* holds keeps its place and counts its occurrences more, the others follow
\* in the order they first occur.
word_loop(words, n, keyword_counts) ==
    LET stripped == [i \in 1..n |-> strip(words[i], keyword_punctuation)]
        kept == IF n = 0 THEN <<>> ELSE SelectSeq(stripped, is_keyword)
        occurrences(w) == Cardinality({i \in 1..Len(kept) : kept[i] = w})
        known == {keyword_counts[i].word : i \in 1..Len(keyword_counts)}
        fresh == insertion_order(SelectSeq(kept, LAMBDA w : w \notin known))
    IN  [i \in 1..(Len(keyword_counts) + Len(fresh)) |->
            IF i <= Len(keyword_counts)
            THEN [word |-> keyword_counts[i].word,
                  count |-> keyword_counts[i].count
                            + occurrences(keyword_counts[i].word)]
            ELSE [word |-> fresh[i - Len(keyword_counts)],
                  count |-> occurrences(fresh[i - Len(keyword_counts)])]]

\* The loop of lines 188-198 over results[1..n]: the words of one result
\* after those of the one before.
tally_loop(results, n) ==
    LET words == Flatten([i \in 1..n |->
                     split(lower(Format(results[i].title) \o " "
                                 \o Format(results[i].content)))])
    IN  IF n = 0 THEN <<>> ELSE word_loop(words, Len(words), <<>>)

\* A sort by count that is not stable: ascending, then reversed, which turns
\* words of equal count around.
sort_count_ascending(items) ==
    LET n == Len(items)
        place(i) ==
            Cardinality({j \in 1..n :
                \/ items[j].count < items[i].count
                \/ items[j].count = items[i].count /\ j < i}) + 1
    IN  IF n = 0 THEN <<>>
        ELSE [k \in 1..n |-> items[CHOOSE i \in 1..n : place(i) = k]]

sort_by_count_reversed(items) ==
    Reverse(sort_count_ascending(items))

\* sorted(items, key=count, reverse=True): stable.  An item goes behind every
\* one that counts more and behind the earlier ones that count the same.
sort_by_count(items) ==
    LET n == Len(items)
        place(i) ==
            Cardinality({j \in 1..n :
                \/ items[j].count > items[i].count
                \/ items[j].count = items[i].count /\ j < i}) + 1
    IN  IF n = 0 THEN <<>>
        ELSE [k \in 1..n |-> items[CHOOSE i \in 1..n : place(i) = k]]

_extract_trending_keywords(results) ==
    LET sorted_keywords == sort_by_count(tally_loop(results, Len(results)))
    IN  [i \in 1..Len(Slice(sorted_keywords, 10)) |-> sorted_keywords[i].word]

----------------------------------------------------------------------------
(* _generate_summary, web_research.py lines 204-226.  The bullet character *)
(* of the source is written "*" here.                                      *)

\* " ".join of the contents (line 216); it raises on a content that is no str.
join_contents(results) ==
    IF \E i \in 1..Len(results) : results[i].content.t # "str"
    THEN Raise("sequence item: expected str instance, NoneType found")
    ELSE Return(join(" ", [i \in 1..Len(results) |-> results[i].content.v]))

\* _generate_summary looking for the themes in the titles as well as in the
\* contents.
_generate_summary_titled(web_results_, news_results_, topic_) ==
    LET all_content == join_contents(web_results_ \o news_results_)
        titles == [i \in 1..Len(web_results_ \o news_results_) |->
                      Format((web_results_ \o news_results_)[i].title)]
        low == lower(all_content.value \o " " \o join(" ", titles))
        summary_parts ==
            <<"Research Summary for '" \o topic_ \o "':\n">>
            \o (IF web_results_ # <<>>
                THEN <<"* Found " \o ToString(Len(web_results_))
                       \o " relevant web sources with insights on " \o topic_>>
                ELSE <<>>)
            \o (IF news_results_ # <<>>
                THEN <<"* Discovered " \o ToString(Len(news_results_))
                       \o " recent news articles covering latest developments">>
                ELSE <<>>)
            \o (IF Contains("growth", low)
                THEN <<"* Market growth and expansion trends identified">>
                ELSE <<>>)
            \o (IF Contains("innovation", low)
                THEN <<"* Innovation and technological advancements noted">>
                ELSE <<>>)
            \o (IF Contains("adoption", low)
                THEN <<"* Adoption patterns and user engagement insights found">>
                ELSE <<>>)
            \o <<"\nThe research indicates " \o topic_
                 \o " is an active area with substantial industry interest and ongoing developments.">>
    IN  IF all_content.raised THEN all_content
        ELSE Return(join("\n", summary_parts))

\* _generate_summary writing both count bullets whatever the counts are.
_generate_summary_counted(web_results_, news_results_, topic_) ==
    LET all_content == join_contents(web_results_ \o news_results_)
        low == lower(all_content.value)
        summary_parts ==
            <<"Research Summary for '" \o topic_ \o "':\n",
              "* Found " \o ToString(Len(web_results_))
                 \o " relevant web sources with insights on " \o topic_,
              "* Discovered " \o ToString(Len(news_results_))
                 \o " recent news articles covering latest developments">>
            \o (IF Contains("growth", low)
                THEN <<"* Market growth and expansion trends identified">>
                ELSE <<>>)
            \o (IF Contains("innovation", low)
                THEN <<"* Innovation and technological advancements noted">>
                ELSE <<>>)
            \o (IF Contains("adoption", low)
                THEN <<"* Adoption patterns and user engagement insights found">>
                ELSE <<>>)
            \o <<"\nThe research indicates " \o topic_
                 \o " is an active area with substantial industry interest and ongoing developments.">>
    IN  IF all_content.raised THEN all_content
        ELSE Return(join("\n", summary_parts))

_generate_summary(web_results_, news_results_, topic_) ==
    LET all_content == join_contents(web_results_ \o news_results_)
        low == lower(all_content.value)
        summary_parts ==
            <<"Research Summary for '" \o topic_ \o "':\n">>
            \o (IF web_results_ # <<>>
                THEN <<"* Found " \o ToString(Len(web_results_))
                       \o " relevant web sources with insights on " \o topic_>>
                ELSE <<>>)
            \o (IF news_results_ # <<>>
                THEN <<"* Discovered " \o ToString(Len(news_results_))
                       \o " recent news articles covering latest developments">>
                ELSE <<>>)
            \o (IF Contains("growth", low)
                THEN <<"* Market growth and expansion trends identified">>
                ELSE <<>>)
            \o (IF Contains("innovation", low)
                THEN <<"* Innovation and technological advancements noted">>
                ELSE <<>>)
            \o (IF Contains("adoption", low)
                THEN <<"* Adoption patterns and user engagement insights found">>
                ELSE <<>>)
            \o <<"\nThe research indicates " \o topic_
                 \o " is an active area with substantial industry interest and ongoing developments.">>
    IN  IF all_content.raised THEN all_content
        ELSE Return(join("\n", summary_parts))

----------------------------------------------------------------------------
(* _get_unique_sources, web_research.py lines 228-243.                     *)

scheme_chars ==
    Letters \cup {"0", "1", "2", "3", "4", "5", "6", "7", "8", "9", "+", "-", "."}

ipv6_chars ==
    {"0", "1", "2", "3", "4", "5", "6", "7", "8", "9", "a", "b", "c", "d",
     "e", "f", "A", "B", "C", "D", "E", "F", ":", "."}

\* urllib.parse.urlparse(url).netloc, in the steps urlsplit takes.

\* u without its scheme: a letter, then scheme characters, up to the first
\* colon, are cut off with the colon.
strip_scheme(u) ==
    LET i == Find(":", u, 1)
    IN  IF /\ i > 1
           /\ IsAlphaChar(Char(u, 1))
           /\ \A j \in 1..(i - 1) : Char(u, j) \in scheme_chars
        THEN SubSeq(u, i + 1, Len(u)) ELSE u

\* The netloc of what follows the scheme: after "//", everything up to the
\* first of "/", "?", "#".
_splitnetloc(rest) ==
    LET D == {j \in 3..Len(rest) : Char(rest, j) \in {"/", "?", "#"}}
    IN  IF Len(rest) >= 2 /\ SubSeq(rest, 1, 2) = "//"
        THEN SubSeq(rest, 3, Min(D \cup {Len(rest) + 1}) - 1) ELSE ""

\* A netloc with an unmatched bracket, or with brackets around something
\* that is no IP literal, raises ValueError.
_check_bracketed_netloc(netloc) ==
    LET open == Find("[", netloc, 1)
        close == Find("]", netloc, 1)
        host == IF open > 0 /\ close > open
                THEN SubSeq(netloc, open + 1, close - 1) ELSE ""
    IN  IF (open > 0) # (close > 0) THEN Raise("Invalid IPv6 URL")
        ELSE IF open > 0 /\ (host = "" \/ ~Contains(":", host)
                             \/ \E j \in 1..Len(host) : Char(host, j) \notin ipv6_chars)
        THEN Raise("does not appear to be an IPv4 or IPv6 address")
        ELSE Return(netloc)

\* Leading blanks are dropped first.
urlparse_netloc(url) ==
    _check_bracketed_netloc(_splitnetloc(strip_scheme(lstrip(url, Whitespace))))

\* The loop of lines 231-241 over results[1..n], the set kept as the
\* sequence of its members in the order they were first added: what each
\* result adds (its domain, or its url where urlparse raises, or nothing),
\* each once.
source_loop(results, n) ==
    LET added(i) ==
            LET url == results[i].url
                domain == urlparse_netloc(url.v)
            IN  IF ~Truthy(url) THEN <<>>
                ELSE IF domain.raised THEN <<url.v>>
                ELSE IF domain.value # "" THEN <<domain.value>>
                ELSE <<>>
    IN  IF n = 0 THEN <<>> ELSE insertion_order(Flatten([i \in 1..n |-> added(i)]))

\* s turned round by r places.
Rotate(s, r) == [i \in 1..Len(s) |-> s[((i - 1 + r) % Len(s)) + 1]]

\* list(sources): a set of str iterates in an order that depends on the
\* hashes of its members, which differ from one interpreter run to the next.
\* The orders the model draws from: every rotation of the insertion order,
\* and its reverse.
iteration_orders(members) ==
    IF members = <<>> THEN {<<>>}
    ELSE {Rotate(members, r) : r \in 0..(Len(members) - 1)}
         \cup {Reverse(members)}

\* _get_unique_sources without the cut of line 243.
_get_unique_sources_uncut(results) ==
    iteration_orders(source_loop(results, Len(results)))

\* The lists _get_unique_sources may return.
_get_unique_sources(results) ==
    {Slice(order, 10) : order \in iteration_orders(source_loop(results, Len(results)))}

----------------------------------------------------------------------------
(* _generate_fallback_insights, web_research.py lines 245-255.             *)

\* _generate_fallback_insights with its themes in alphabetical order.
_generate_fallback_insights_sorted(topic_) ==
    [general_insights |->
        <<topic_ \o " is an emerging field with significant potential",
          "Industry adoption of " \o topic_ \o " is accelerating",
          "Key players are investing heavily in " \o topic_ \o " development">>,
     trending_themes |-> <<"adoption", "growth", "innovation", "market", "technology">>,
     note |-> "These are general insights due to search limitations. For accurate information, please verify with current sources."]

_generate_fallback_insights(topic_) ==
    [general_insights |->
        <<topic_ \o " is an emerging field with significant potential",
          "Industry adoption of " \o topic_ \o " is accelerating",
          "Key players are investing heavily in " \o topic_ \o " development">>,
     trending_themes |-> <<"innovation", "growth", "adoption", "technology", "market">>,
     note |-> "These are general insights due to search limitations. For accurate information, please verify with current sources."]

----------------------------------------------------------------------------
(* _run, web_research.py lines 38-81.                                      *)

\* research_fields refusing to build a report without web results.
research_fields_needs_web(web_results_, news_results_, topic_) ==
    LET key_findings == _extract_key_findings(web_results_ \o news_results_, topic_)
        summary == _generate_summary(web_results_, news_results_, topic_)
    IN  IF web_results_ = <<>> THEN Raise("no web results")
        ELSE IF key_findings.raised THEN key_findings
        ELSE IF summary.raised THEN summary
        ELSE Return(
            [topic |-> topic_,
             web_results |-> [count |-> Len(web_results_), results |-> web_results_],
             news_results |-> [count |-> Len(news_results_), results |-> news_results_],
             key_findings |-> key_findings.value,
             trending_keywords |->
                 _extract_trending_keywords(web_results_ \o news_results_),
             summary |-> summary.value])

\* The dict of lines 57-72 without its timestamp and sources, built in the
\* order Python evaluates it: the first helper that raises ends it.
research_fields(web_results_, news_results_, topic_) ==
    LET key_findings == _extract_key_findings(web_results_ \o news_results_, topic_)
        summary == _generate_summary(web_results_, news_results_, topic_)
    IN  IF key_findings.raised THEN key_findings
        ELSE IF summary.raised THEN summary
        ELSE Return(
            [topic |-> topic_,
             web_results |-> [count |-> Len(web_results_), results |-> web_results_],
             news_results |-> [count |-> Len(news_results_), results |-> news_results_],
             key_findings |-> key_findings.value,
             trending_keywords |->
                 _extract_trending_keywords(web_results_ \o news_results_),
             summary |-> summary.value])

\* The dict of lines 57-72: now is datetime.now().isoformat() and sources_
\* the list _get_unique_sources returned.
research_data(fields, now, sources_) ==
    IF fields.raised THEN fields
    ELSE Return(
        [topic |-> fields.value.topic,
         search_performed_at |-> now,
         web_results |-> fields.value.web_results,
         news_results |-> fields.value.news_results,
         key_findings |-> fields.value.key_findings,
         trending_keywords |-> fields.value.trending_keywords,
         summary |-> fields.value.summary,
         sources |-> sources_])

\* try_run without the except clause of lines 76-81: the exception leaves _run.
try_run_uncaught(research, topic_) ==
    IF research.raised THEN [output |-> <<>>, raised |-> TRUE]
    ELSE [output |-> research.value, raised |-> FALSE]

\* The try/except of lines 49-81 around the assembly: what _run returns, and
\* whether an exception leaves it.
try_run(research, topic_) ==
    IF research.raised
    THEN [output |-> [error |-> "Web search failed: " \o research.value,
                      topic |-> topic_,
                      fallback_insights |-> _generate_fallback_insights(topic_)],
          raised |-> FALSE]
    ELSE [output |-> research.value, raised |-> FALSE]

----------------------------------------------------------------------------
(* The search backend: what DuckDuckGoSearchResults.invoke may answer.     *)

NonDict ==
    [isdict |-> FALSE, title |-> Missing, snippet |-> Missing, link |-> Missing,
     source |-> Missing, date |-> Missing]

WebHit(title, snippet, link) ==
    [isdict |-> TRUE, title |-> PyStr(title), snippet |-> snippet,
     link |-> PyStr(link), source |-> Missing, date |-> Missing]

NewsHit(title, snippet, link, source, date) ==
    [isdict |-> TRUE, title |-> PyStr(title), snippet |-> snippet,
     link |-> PyStr(link), source |-> PyStr(source), date |-> PyStr(date)]

GeneralHits ==
    {WebHit("AI agents rising",
            PyStr("AI agents trend in 2024. Enterprise adoption of AI agents shows strong growth"),
            "https://example.com/agents"),
     WebHit("Garden notes", PyStr("unrelated gardening tips"),
            "https://garden.org/tips"),
     WebHit("Agents weekly report", PyStr("agents report"),
            "http://example.com/weekly")}

ExpertHits ==
    {WebHit("Expert view", PyStr("data on agents"), "https://research.net/x"),
     WebHit("Broken", PyInt("7"), "https://broken.io/"),
     NonDict}

NewsHits ==
    {NewsHit("Agents in the news", PyStr("Innovation in AI agents"),
             "https://news.site/today", "News Site", "2024-05-01"),
     NewsHit("No snippet", PyNone, "https://wire.org/1", "Wire", "2024-05-02"),
     NonDict}

Topics == {"AI agents"}
Timestamps == {"2024-05-01T10:00:00", "2024-05-01T10:00:01"}

Pending == [status |-> "pending", hits |-> <<>>]
Returned(hits) == [status |-> "returned", hits |-> hits]
Raised == [status |-> "raised", hits |-> <<>>]

----------------------------------------------------------------------------
(* _run as a function of what the backend answers, of the clock and of the *)
(* hash seed of the interpreter, web_research.py lines 38-140.             *)

\* _search_web: one try block around both queries, so that either one
\* raising makes it return [].
_search_web(general_, expert_, topic_, max_results_) ==
    IF general_.status = "raised" \/ expert_.status = "raised" THEN <<>>
    ELSE combine_web(general_.hits, expert_.hits, topic_, max_results_)

\* _search_news
_search_news(news_, topic_) ==
    IF news_.status = "raised" THEN <<>> ELSE format_news(news_.hits, topic_)

\* The hash seeds an interpreter may start with: str hashes are salted with
\* a seed drawn at the start of each interpreter process.
HashSeeds == 0..MaxHashSeed

\* list(sources) in an interpreter started with hashseed: one of
\* iteration_orders, the same for the same members and the same seed.
set_order(members, hashseed) ==
    IF members = <<>> THEN <<>>
    ELSE IF hashseed = 0 THEN Reverse(members)
    ELSE Rotate(members, (hashseed - 1) % Len(members))

\* Lines 51-71 up to the timestamp and the order of the sources: the report
\* fields (or the exception) and the members of the set of sources in the
\* order they were added.
run_searches(topic_, max_results_, general_, expert_, news_) ==
    LET web_results_ == _search_web(general_, expert_, topic_, max_results_)
        news_results_ == _search_news(news_, topic_)
        all_results == web_results_ \o news_results_
    IN  [fields |-> research_fields(web_results_, news_results_, topic_),
         members |-> source_loop(all_results, Len(all_results))]

\* What _run returns after the searches, at time now in an interpreter
\* started with hashseed.
finish_run(searched, topic_, now, hashseed) ==
    try_run(research_data(searched.fields, now,
                          Slice(set_order(searched.members, hashseed), 10)),
            topic_).output

\* What _run returns.
_run(topic_, max_results_, general_, expert_, news_, now, hashseed) ==
    finish_run(run_searches(topic_, max_results_, general_, expert_, news_),
               topic_, now, hashseed)

----------------------------------------------------------------------------
(* One call of _run, with a step at each backend query.                    *)

Init ==
    /\ pc = "general_query"
    /\ topic \in Topics
    /\ max_results \in (-1)..MaxResultsArg
    /\ general = Pending /\ expert = Pending /\ news = Pending
    /\ web_results = <<>> /\ news_results = <<>>
    /\ output = <<>> /\ raised = FALSE
    /\ args = <<>> /\ ret = <<>>
    /\ browser = "none" /\ quit_calls = 0 /\ loaded = <<>> /\ keys_sent = <<>>

\* Line 90: the general query returns.
GeneralReturns ==
    /\ pc = "general_query"
    /\ \E hits \in SeqUpTo(GeneralHits, MaxGeneralHits) : general' = Returned(hits)
    /\ pc' = "expert_query"
    /\ UNCHANGED <<browser, quit_calls, loaded, keys_sent, topic, max_results, expert, news, web_results, news_results,
                   output, raised, args, ret>>

\* Line 90 raises: lines 113-114 make _search_web return [].
GeneralRaises ==
    /\ pc = "general_query"
    /\ general' = Raised
    /\ web_results' = <<>>
    /\ pc' = "news_query"
    /\ UNCHANGED <<browser, quit_calls, loaded, keys_sent, topic, max_results, expert, news, news_results, output,
                   raised, args, ret>>

\* Line 94: the expert query returns, and lines 96-111 run.
ExpertReturns ==
    /\ pc = "expert_query"
    /\ \E hits \in SeqUpTo(ExpertHits, MaxExpertHits) :
          /\ expert' = Returned(hits)
          /\ web_results' = combine_web(general.hits, hits, topic, max_results)
    /\ pc' = "news_query"
    /\ UNCHANGED <<browser, quit_calls, loaded, keys_sent, topic, max_results, general, news, news_results, output,
                   raised, args, ret>>

\* Line 94 raises: lines 113-114 make _search_web return [].
ExpertRaises ==
    /\ pc = "expert_query"
    /\ expert' = Raised
    /\ web_results' = <<>>
    /\ pc' = "news_query"
    /\ UNCHANGED <<browser, quit_calls, loaded, keys_sent, topic, max_results, general, news, news_results, output,
                   raised, args, ret>>

\* Line 121: the news query returns, and lines 123-137 run.
NewsReturns ==
    /\ pc = "news_query"
    /\ \E hits \in SeqUpTo(NewsHits, MaxNewsHits) :
          /\ news' = Returned(hits)
          /\ news_results' = format_news(hits, topic)
    /\ pc' = "assemble"
    /\ UNCHANGED <<browser, quit_calls, loaded, keys_sent, topic, max_results, general, expert, web_results, output,
                   raised, args, ret>>

\* Line 121 raises: lines 139-140 make _search_news return [].
NewsRaises ==
    /\ pc = "news_query"
    /\ news' = Raised
    /\ news_results' = <<>>
    /\ pc' = "assemble"
    /\ UNCHANGED <<browser, quit_calls, loaded, keys_sent, topic, max_results, general, expert, web_results, output,
                   raised, args, ret>>

\* Lines 57-81: the report is assembled and returned, or the fallback is.
Assemble ==
    /\ pc = "assemble"
    /\ \E fields \in {research_fields(web_results, news_results, topic)} :
       \E now \in Timestamps :
       \E sources_ \in _get_unique_sources(web_results \o news_results) :
          LET r == try_run(research_data(fields, now, sources_), topic)
          IN  output' = r.output /\ raised' = r.raised
    /\ pc' = "done"
    /\ UNCHANGED <<browser, quit_calls, loaded, keys_sent, topic, max_results, general, expert, news, web_results,
                   news_results, args, ret>>

Next ==
    \/ GeneralReturns \/ GeneralRaises
    \/ ExpertReturns \/ ExpertRaises
    \/ NewsReturns \/ NewsRaises
    \/ Assemble

Spec == Init /\ [][Next]_vars

----------------------------------------------------------------------------
(* Properties of _run, checked under Spec.                                 *)

ResearchKeys ==
    {"topic", "search_performed_at", "web_results", "news_results",
     "key_findings", "trending_keywords", "summary", "sources"}
FallbackKeys == {"error", "topic", "fallback_insights"}

IsResearchReport == pc = "done" /\ DOMAIN output = ResearchKeys
IsFallbackReport == pc = "done" /\ DOMAIN output = FallbackKeys

\* The dict-shaped hits among hits, in order.
DictHits(hits) == SelectSeq(hits, LAMBDA h : h.isdict)

\* C1: whatever the backend does at each of the three queries (hits or an
\* exception, well-formed hits or not), no exception leaves _run, and what
\* it returns has exactly the fields of a ResearchReport or exactly the
\* fields of a FallbackReport, never an error field beside report fields.
C1_ExactlyOneShape ==
    /\ raised => pc = "done"
    /\ pc = "done" =>
          /\ ~raised
          /\ (DOMAIN output = ResearchKeys) # (DOMAIN output = FallbackKeys)
          /\ DOMAIN output = ResearchKeys => "error" \notin DOMAIN output

\* C1 witness: every query returned, a news hit without a snippet made the
\* assembly fail, and _run returned the fallback without raising.
C1_Witness ==
    /\ IsFallbackReport /\ ~raised
    /\ general.status = "returned" /\ expert.status = "returned"
    /\ news.status = "returned" /\ news.hits # <<>>

\* C2: with max_results >= 1 and both web queries answered with hits that can
\* all be scored, web_results is the first max_results entries of the stably
\* relevance-sorted list of all hits of both queries.
C2_SortThenTruncate ==
    (/\ pc \in {"news_query", "assemble", "done"}
     /\ max_results >= 1
     /\ general.status = "returned" /\ expert.status = "returned")
    => LET all_hits == general.hits \o expert.hits
           scored == format_loop(all_hits, Len(all_hits), topic, "web_search")
       IN  ~scored.raised =>
              web_results = Slice(sort_by_relevance(scored.value), max_results)

\* C3: in a ResearchReport the web results are in non-increasing relevance,
\* and two different results of equal relevance stand in the order their hits
\* have in the general hits followed by the expert hits.
C3_SortedAndStable ==
    IsResearchReport =>
        LET rs == output.web_results.results
            all_hits == DictHits(general.hits \o expert.hits)
        IN  \A i, j \in 1..Len(rs) :
               i < j =>
                  /\ rs[i].relevance >= rs[j].relevance
                  /\ (rs[i].relevance = rs[j].relevance /\ rs[i] # rs[j]) =>
                        \E p, q \in 1..Len(all_hits) :
                           /\ p < q
                           /\ rs[i] = FormatWeb(all_hits[p], rs[i].relevance)
                           /\ rs[j] = FormatWeb(all_hits[q], rs[j].relevance)
                           /\ \A p2 \in 1..Len(all_hits) :
                                 rs[j] = FormatWeb(all_hits[p2], rs[j].relevance)
                                 => p < p2

\* C3 witness: a report whose three web results were reordered by the sort
\* and end with two different results of equal relevance.
C3_Witness ==
    /\ IsResearchReport
    /\ Len(output.web_results.results) = 3
    /\ output.web_results.results[1].relevance > output.web_results.results[2].relevance
    /\ output.web_results.results[2].relevance = output.web_results.results[3].relevance
    /\ output.web_results.results[2] # output.web_results.results[3]
    /\ output.web_results.results[1].content = Get(general.hits[2], "snippet")

----------------------------------------------------------------------------
(* _calculate_relevance applied on its own to bounded contents and topics. *)

ContentVocab ==
    {"AI", "agents", "Trends", "2024", "2025", "in2023", "database",
     "growth", "increased", "Statistics", "reports", "gardening"}
TopicVocab == {"AI", "agents", "ai", "Data"}

RelevanceContents ==
    {PyStr(join(" ", ws)) : ws \in SeqUpTo(ContentVocab, MaxContentWords)}
    \cup {PyNone}
RelevanceTopics == {join(" ", ws) : ws \in SeqUpTo(TopicVocab, MaxTopicWords)}

Idle ==
    /\ topic = "" /\ max_results = 0
    /\ general = <<>> /\ expert = <<>> /\ news = <<>>
    /\ web_results = <<>> /\ news_results = <<>>
    /\ output = <<>> /\ raised = FALSE
    /\ browser = "none" /\ quit_calls = 0 /\ loaded = <<>> /\ keys_sent = <<>>

InitRelevance ==
    /\ pc = "call"
    /\ args \in [content : RelevanceContents, topic : RelevanceTopics]
    /\ ret = <<>>
    /\ Idle

CallRelevance ==
    /\ pc = "call"
    /\ ret' = _calculate_relevance(args.content, args.topic)
    /\ pc' = "return"
    /\ UNCHANGED <<browser, quit_calls, loaded, keys_sent, topic, max_results, general, expert, news, web_results,
                   news_results, output, raised, args>>

SpecRelevance == InitRelevance /\ [][CallRelevance]_vars

\* The nine bonus keywords, as a set.
NineBonusKeywords ==
    {"2025", "2024", "2023", "trend", "growth", "increase", "statistics",
     "data", "report"}

\* The content a call was given, as text: nothing for a missing content.
ContentText == IF args.content.t = "str" THEN args.content.v ELSE ""

\* C5: in half points, the score is twice the number of positions of the
\* lower-cased topic's word list whose word is found in the lower-cased
\* content, plus the number of bonus keywords found in it, each counted once;
\* an empty or missing content scores 0.
C5_RelevanceFormula ==
    pc = "return" =>
        LET words == split(lower(args.topic))
            low == lower(ContentText)
        IN  /\ ~ret.raised
            /\ ret.value =
                 2 * Cardinality({i \in 1..Len(words) : Contains(words[i], low)})
                 + Cardinality({k \in NineBonusKeywords : Contains(k, low)})
            /\ ContentText = "" => ret.value = 0

\* C5 witness: the topic names "AI" twice, the content holds it once and
\* holds one bonus keyword in upper case: 1.0 + 1.0 + 0.5.
C5_Witness ==
    /\ pc = "return"
    /\ args.topic = "AI AI"
    /\ args.content = PyStr("AI Trends")
    /\ ret.value = 5

\* C6: the score is never negative; it is 0 when the content holds no topic
\* word and no bonus keyword; and it is at least the number of topic words
\* (2 half points each) when the content holds every one of them, whatever
\* the case of the letters.
C6_RelevanceBounds ==
    pc = "return" =>
        LET words == split(args.topic)
            low == lower(ContentText)
            found(w) == Contains(lower(w), low)
        IN  /\ ~ret.raised
            /\ ret.value >= 0
            /\ (/\ \A i \in 1..Len(words) : ~found(words[i])
                /\ \A k \in NineBonusKeywords : ~Contains(k, low))
               => ret.value = 0
            /\ (\A i \in 1..Len(words) : found(words[i]))
               => ret.value >= 2 * Len(words)

\* C6 witness: both topic words are in the content, in another case and
\* order, with no bonus keyword: the score is exactly the number of words.
C6_Witness ==
    /\ pc = "return"
    /\ args.topic = "ai agents"
    /\ args.content = PyStr("agents AI")
    /\ ret.value = 4


----------------------------------------------------------------------------
(* _extract_key_findings applied on its own to bounded result lists.       *)

\* A result as _extract_key_findings reads it: only its content matters.
ResultWith(content) ==
    [title |-> PyStr(""), content |-> PyStr(content), url |-> PyStr(""),
     type |-> "web_search", relevance |-> 0]

FindingContents ==
    {"AI agents market is expanding quickly this year. Growth of agent platforms continues worldwide. Spending on agent tooling keeps rising in every market. Adoption among large enterprises is accelerating.",
     "Innovation in robotics is reshaping factory work. New trends point to cheaper sensors everywhere. Prices increase as demand for chips stays high.",
     "The market for drones doubled within two years. Trend reports expect further consolidation soon. Rapid adoption of drones changes logistics work",
     "Market growth was strong across all regions",
     "Nothing here mentions any of the key words at all. Growth is up.  Growth of agent platforms continues worldwide.",
     "Experts say that AI Agents will be everywhere soon. It is so"}

FindingTopics == {"AI agents", "drones"}

InitFindings ==
    /\ pc = "call"
    /\ args \in [results : SeqUpTo({ResultWith(c) : c \in FindingContents},
                                   MaxFindingResults),
                 topic : FindingTopics]
    /\ ret = <<>>
    /\ Idle

CallFindings ==
    /\ pc = "call"
    /\ ret' = _extract_key_findings(args.results, args.topic)
    /\ pc' = "return"
    /\ UNCHANGED <<browser, quit_calls, loaded, keys_sent, topic, max_results, general, expert, news, web_results,
                   news_results, output, raised, args>>

SpecFindings == InitFindings /\ [][CallFindings]_vars

\* sentence.strip().rstrip('.')
Cleaned(sentence) == rstrip(strip(sentence, Whitespace), {"."})

\* The cleaned sentences of one content that the code's condition keeps.
KeySentences(content, topic_) ==
    LET kept == SelectSeq(split_on(content, ". "),
                          LAMBDA x : is_key_sentence(x, topic_))
    IN  [i \in 1..Len(kept) |-> Cleaned(kept[i])]

\* The cleaned key sentences of the results whose content is longer than 50
\* characters, result after result.
RECURSIVE Candidates(_, _)
Candidates(results, topic_) ==
    IF results = <<>> THEN <<>>
    ELSE Candidates(SubSeq(results, 1, Len(results) - 1), topic_)
         \o (IF Len(results[Len(results)].content.v) > 50
             THEN KeySentences(results[Len(results)].content.v, topic_)
             ELSE <<>>)

\* s without the entries that repeat an earlier one.
Distinct(s) ==
    LET first == {i \in 1..Len(s) : \A j \in 1..(i - 1) : s[j] # s[i]}
        nth(k) == CHOOSE i \in first : Cardinality({j \in first : j < i}) = k - 1
    IN  [k \in 1..Cardinality(first) |-> s[nth(k)]]

\* C7: the findings are at most 6, no two equal, and are the first 6 distinct
\* cleaned key sentences in the order of the scan.
C7_FirstSixDistinct ==
    pc = "return" =>
        /\ ~ret.raised
        /\ Len(ret.value) <= 6
        /\ \A i, j \in 1..Len(ret.value) : i # j => ret.value[i] # ret.value[j]
        /\ ret.value = Slice(Distinct(Candidates(Slice(args.results, 8), args.topic)), 6)

\* C7 witness: the sixth finding is collected at a break inside the second
\* result, and the third result holds key sentences that are not returned.
C7_Witness ==
    /\ pc = "return"
    /\ Len(args.results) = 3
    /\ Len(ret.value) = 6
    /\ Len(Distinct(Candidates(SubSeq(args.results, 1, 1), args.topic))) = 4
    /\ Len(Distinct(Candidates(SubSeq(args.results, 1, 2), args.topic))) = 7
    /\ Len(Distinct(Candidates(args.results, args.topic))) > 7

\* The rule of the claim on one sentence: longer than 30 characters, and
\* holding, in lower case, the lower-cased topic or one of six keywords.
ClaimedKeySentence(sentence, topic_) ==
    /\ Len(sentence) > 30
    /\ \E k \in {lower(topic_), "trend", "growth", "increase", "innovation",
                 "market", "adoption"} : Contains(k, lower(sentence))

\* The cleaned sentences the rule keeps among the scanned results whose
\* content is longer than gate characters.
ClaimedFindings(gate) ==
    {Cleaned(split_on(args.results[n].content.v, ". ")[i]) :
        <<n, i>> \in
          {<<n, i>> \in (1..Len(Slice(args.results, 8))) \X (1..8) :
              /\ Len(args.results[n].content.v) > gate
              /\ i <= Len(split_on(args.results[n].content.v, ". "))
              /\ ClaimedKeySentence(split_on(args.results[n].content.v, ". ")[i],
                                    args.topic)}}

\* C8 as claimed: a sentence of a scanned result is kept exactly when it is
\* longer than 30 characters and holds the topic or a keyword, whatever the
\* length of the result's content (where fewer than 6 findings are returned,
\* so that the cap drops none).
C8_RuleWithoutGate ==
    pc = "return" =>
        /\ Range(ret.value) \subseteq ClaimedFindings(-1)
        /\ Len(ret.value) < 6 => Range(ret.value) = ClaimedFindings(-1)

\* C8 as amended: a sentence of a scanned result is kept exactly when the
\* result's content is longer than 50 characters, the sentence is longer than
\* 30 characters and it holds the topic or a keyword.
C8_RuleWithGate ==
    pc = "return" =>
        /\ ~ret.raised
        /\ Range(ret.value) \subseteq ClaimedFindings(50)
        /\ Len(ret.value) < 6 => Range(ret.value) = ClaimedFindings(50)

\* C8 witness: a content of 43 characters that is one key sentence yields no
\* finding, while a longer content beside it yields its key sentence.
C8_Witness ==
    /\ pc = "return"
    /\ args.topic = "AI agents"
    /\ Len(args.results) = 2
    /\ args.results[1].content.v = "Market growth was strong across all regions"
    /\ ret.value = <<"Experts say that AI Agents will be everywhere soon">>

----------------------------------------------------------------------------
(* _extract_trending_keywords applied on its own to bounded result lists.  *)

\* A result as _extract_trending_keywords reads it: its title and content.
TitledResult(title, content) ==
    [title |-> title, content |-> PyStr(content), url |-> PyStr(""),
     type |-> "web_search", relevance |-> 0]

KeywordResults ==
    {TitledResult(PyStr("Robots and planning"),
                  "robots planning vision (robots) sensors, would their"),
     TitledResult(PyStr("Drone markets"),
                  "drones logistics markets delivery batteries drones"),
     TitledResult(PyStr("Cloud"),
                  "cloud compute storage network latency agent-based 2024 robots"),
     TitledResult(PyNone, "Vision! \"sensors\" where should there")}

InitKeywords ==
    /\ pc = "call"
    /\ args \in [results : SeqUpTo(KeywordResults, MaxKeywordResults)]
    /\ ret = <<>>
    /\ Idle

CallKeywords ==
    /\ pc = "call"
    /\ ret' = _extract_trending_keywords(args.results)
    /\ pc' = "return"
    /\ UNCHANGED <<browser, quit_calls, loaded, keys_sent, topic, max_results, general, expert, news, web_results,
                   news_results, output, raised, args>>

SpecKeywords == InitKeywords /\ [][CallKeywords]_vars

\* The tokens of the lower-cased title and content of every result, in
\* order, each without its surrounding punctuation.
RECURSIVE Tokens(_)
Tokens(results) ==
    IF results = <<>> THEN <<>>
    ELSE LET last == results[Len(results)]
             words == split(lower(Format(last.title) \o " " \o Format(last.content)))
         IN  Tokens(SubSeq(results, 1, Len(results) - 1))
             \o [i \in 1..Len(words) |->
                    strip(words[i], {".", ",", "!", "?", "(", ")", "[", "]",
                                     "{", "}", "\"", "'", "-"})]

\* What the claim asks of an entry: longer than 4, alphabetic, no stopword.
ClaimedKeyword(word) ==
    /\ Len(word) > 4
    /\ \A i \in 1..Len(word) :
          \E k \in 1..Len(LowerCase) :
             Char(word, i) \in {Char(LowerCase, k), Char(UpperCase, k)}
    /\ word \notin {"this", "that", "with", "from", "they", "have", "been",
                    "will", "would", "could", "should", "there", "their",
                    "where"}

\* C9: the trending keywords are at most 10 and as many as there are distinct
\* keyword tokens up to 10; each is longer than 4, alphabetic and no stopword;
\* they are in non-increasing order of their count over all tokens, those of
\* equal count in the order of their first occurrence; and no keyword token
\* left out has a higher count than one included.
C9_TrendingKeywords ==
    pc = "return" =>
        LET tokens == Tokens(args.results)
            count(w) == Cardinality({i \in 1..Len(tokens) : tokens[i] = w})
            first(w) == Min({i \in 1..Len(tokens) : tokens[i] = w})
            keywords == {w \in Range(tokens) : ClaimedKeyword(w)}
        IN  /\ Len(ret) <= 10
            /\ Len(ret) = IF Cardinality(keywords) < 10
                          THEN Cardinality(keywords) ELSE 10
            /\ Range(ret) \subseteq keywords
            /\ \A i, j \in 1..Len(ret) :
                  i < j =>
                     \/ count(ret[i]) > count(ret[j])
                     \/ /\ count(ret[i]) = count(ret[j])
                        /\ first(ret[i]) < first(ret[j])
            /\ \A w \in keywords \ Range(ret) :
                  \A i \in 1..Len(ret) : count(w) <= count(ret[i])

\* C9 witness: 15 distinct keyword tokens, of which 10 are returned: the word
\* counted four times, then the four counted twice in the order of their
\* first occurrence, then the first five of those counted once; the
\* stopwords "would" and "their" are among the tokens.
C9_Witness ==
    /\ pc = "return"
    /\ Cardinality({w \in Range(Tokens(args.results)) : ClaimedKeyword(w)}) = 15
    /\ {"would", "their"} \subseteq Range(Tokens(args.results))
    /\ ret = <<"robots", "planning", "markets", "drones", "cloud", "vision",
               "sensors", "drone", "logistics", "delivery">>

----------------------------------------------------------------------------
(* _get_unique_sources applied on its own to bounded result lists.         *)

\* A result as _get_unique_sources reads it: only its url matters.
ResultAt(url) ==
    [title |-> PyStr(""), content |-> PyStr(""), url |-> url,
     type |-> "web_search", relevance |-> 0]

\* The urls the result lists are cut from: two of one domain, one that
\* urlparse rejects, one without a scheme, an empty and a missing one, and
\* enough further domains to pass the cap.
UrlCatalogue ==
    <<PyStr("https://example.com/a"), PyStr("http://[::1"),
      PyStr("http://example.com/b?x=1"), PyStr("example.org/no-scheme"),
      PyStr(""), PyStr("https://news.site/today#top"), PyNone,
      PyStr("HTTPS://Research.Net:8080/x"), PyStr("https://d1.io/"),
      PyStr("https://d2.io/p"), PyStr("https://d3.io"), PyStr("https://d4.io/"),
      PyStr("https://d5.io?q"), PyStr("https://d6.io/"), PyStr("https://d7.io/"),
      PyStr("https://d8.io/"), PyStr("https://d9.io/")>>

\* The result lists: every run of consecutive catalogue entries among the
\* first MaxUrls, and the empty list.
SourceResults ==
    LET n == IF MaxUrls < Len(UrlCatalogue) THEN MaxUrls ELSE Len(UrlCatalogue)
    IN  {<<>>} \cup {[k \in 1..(j - i + 1) |-> ResultAt(UrlCatalogue[i + k - 1])] :
                        <<i, j>> \in {<<i, j>> \in (1..n) \X (1..n) : i <= j}}

InitSources ==
    /\ pc = "call"
    /\ args \in [results : SourceResults]
    /\ ret = <<>>
    /\ Idle

CallSources ==
    /\ pc = "call"
    /\ ret' \in _get_unique_sources(args.results)
    /\ pc' = "return"
    /\ UNCHANGED <<browser, quit_calls, loaded, keys_sent, topic, max_results, general, expert, news, web_results,
                   news_results, output, raised, args>>

SpecSources == InitSources /\ [][CallSources]_vars

\* e is the network location of url: url is a scheme, "://", e, and then
\* nothing or a path, query or fragment; e is not empty and holds no "/",
\* "?" or "#".
IsNetlocOf(e, url) ==
    /\ e # ""
    /\ \A k \in 1..Len(e) : Char(e, k) \notin {"/", "?", "#"}
    /\ \E i \in 2..(Len(url) - 2) :
          /\ SubSeq(url, i, i + 2) = "://"
          /\ \A k \in 1..(i - 1) : Char(url, k) \notin {":", "/", "?", "#"}
          /\ i + 2 + Len(e) <= Len(url)
          /\ SubSeq(url, i + 3, i + 2 + Len(e)) = e
          /\ \/ i + 2 + Len(e) = Len(url)
             \/ Char(url, i + 3 + Len(e)) \in {"/", "?", "#"}

\* The urls of the results that are non-empty strings.
UrlsOf(results) ==
    {results[i].url.v : i \in {i \in 1..Len(results) : Truthy(results[i].url)}}

\* C10 as claimed: the sources are at most 10, no two equal, and each is the
\* network location of the url of some result.
C10_OnlyDomains ==
    pc = "return" =>
        /\ Len(ret) <= 10
        /\ \A i, j \in 1..Len(ret) : i # j => ret[i] # ret[j]
        /\ \A i \in 1..Len(ret) :
              \E url \in UrlsOf(args.results) : IsNetlocOf(ret[i], url)

\* C10 as amended: the sources are at most 10, no two equal, and each is the
\* network location of the url of some result, or the whole url of a result
\* whose url urlparse rejects.
C10_DomainsOrRawUrl ==
    pc = "return" =>
        /\ Len(ret) <= 10
        /\ \A i, j \in 1..Len(ret) : i # j => ret[i] # ret[j]
        /\ \A i \in 1..Len(ret) :
              \E url \in UrlsOf(args.results) :
                 \/ IsNetlocOf(ret[i], url)
                 \/ ret[i] = url /\ urlparse_netloc(url).raised

\* C10 witness: 15 results with 11 distinct sources, two of the results with
\* the same domain, of which 10 are returned, the rejected url among them.
C10_Witness ==
    /\ pc = "return"
    /\ Len(args.results) = 15
    /\ Len(source_loop(args.results, Len(args.results))) = 11
    /\ Len(ret) = 10
    /\ ret[1] = "example.com" /\ ret[2] = "http://[::1"
    /\ ret[4] = "Research.Net:8080"
    /\ "d7.io" \notin Range(ret)

----------------------------------------------------------------------------
(* _generate_summary applied on its own to bounded result lists.           *)

SummaryWebResults ==
    {TitledResult(PyStr("Growth outlook"), "Innovation drives the sector"),
     TitledResult(PyStr("Plain"), "nothing of note"),
     TitledResult(PyStr("Adoption"), "GROWTH and adoption continue"),
     TitledResult(PyStr("Innovation and growth"), "")}

SummaryNewsResults ==
    {TitledResult(PyStr("Adoption wave"), "steady innovation reported"),
     TitledResult(PyStr("Quiet growth"), "no themes")}

SummaryTopics == {"AI agents", "drones"}

InitSummary ==
    /\ pc = "call"
    /\ args \in [web_results : SeqUpTo(SummaryWebResults, MaxSummaryWeb),
                 news_results : SeqUpTo(SummaryNewsResults, MaxSummaryNews),
                 topic : SummaryTopics]
    /\ ret = <<>>
    /\ Idle

CallSummary ==
    /\ pc = "call"
    /\ ret' = _generate_summary(args.web_results, args.news_results, args.topic)
    /\ pc' = "return"
    /\ UNCHANGED <<browser, quit_calls, loaded, keys_sent, topic, max_results, general, expert, news, web_results,
                   news_results, output, raised, args>>

SpecSummary == InitSummary /\ [][CallSummary]_vars

\* The word occurs, in any case of its letters, in the content of a web or
\* news result of the call.
ThemeInContent(word) ==
    \E i \in 1..Len(args.web_results \o args.news_results) :
       Contains(word, lower((args.web_results \o args.news_results)[i].content.v))

\* The bullets the template allows, in its order, each with its condition.
ClaimedBullets ==
    <<[when |-> args.web_results # <<>>,
       line |-> "* Found " \o ToString(Len(args.web_results))
                \o " relevant web sources with insights on " \o args.topic],
      [when |-> args.news_results # <<>>,
       line |-> "* Discovered " \o ToString(Len(args.news_results))
                \o " recent news articles covering latest developments"],
      [when |-> ThemeInContent("growth"),
       line |-> "* Market growth and expansion trends identified"],
      [when |-> ThemeInContent("innovation"),
       line |-> "* Innovation and technological advancements noted"],
      [when |-> ThemeInContent("adoption"),
       line |-> "* Adoption patterns and user engagement insights found"]>>

\* C11: the lines of the summary are the header naming the topic, an empty
\* line, the bullets whose condition holds (web count, news count, growth,
\* innovation, adoption, in this order and no other), an empty line, and the
\* closing sentence naming the topic; a theme word in a title alone adds no
\* bullet.
C11_SummaryTemplate ==
    pc = "return" =>
        LET kept == SelectSeq(ClaimedBullets, LAMBDA b : b.when)
        IN  /\ ~ret.raised
            /\ split_on(ret.value, "\n") =
                 <<"Research Summary for '" \o args.topic \o "':", "">>
                 \o [i \in 1..Len(kept) |-> kept[i].line]
                 \o <<"", "The research indicates " \o args.topic
                          \o " is an active area with substantial industry interest and ongoing developments.">>

\* C11 witness: one web result titled "Growth outlook" whose content holds
\* only "Innovation", and no news result: the summary has the web bullet and
\* the innovation bullet, and neither a news nor a growth bullet.
C11_Witness ==
    /\ pc = "return"
    /\ Len(args.web_results) = 1 /\ args.news_results = <<>>
    /\ args.web_results[1].title = PyStr("Growth outlook")
    /\ Len(split_on(ret.value, "\n")) = 6
    /\ split_on(ret.value, "\n")[4] = "* Innovation and technological advancements noted"

----------------------------------------------------------------------------
(* Failures of the backend and of the assembly, checked under Spec.        *)

\* C12: when the general query and the news query both raise (the expert
\* query is then never issued, so every call the backend saw raised), _run
\* returns a ResearchReport with no web result, no news result, no key
\* finding, no trending keyword, no source, and a summary that is the header
\* and the closing sentence alone.
C12_AllQueriesRaise ==
    (pc = "done" /\ general.status = "raised" /\ news.status = "raised") =>
        /\ ~raised
        /\ DOMAIN output = ResearchKeys
        /\ output.topic = topic
        /\ output.web_results = [count |-> 0, results |-> <<>>]
        /\ output.news_results = [count |-> 0, results |-> <<>>]
        /\ output.key_findings = <<>>
        /\ output.trending_keywords = <<>>
        /\ output.sources = <<>>
        /\ output.summary =
             "Research Summary for '" \o topic \o "':\n\n\nThe research indicates "
             \o topic
             \o " is an active area with substantial industry interest and ongoing developments."

\* C12 witness: a finished call in which the general and the news query
\* raised and the expert query was never issued.
C12_Witness ==
    /\ pc = "done"
    /\ general.status = "raised" /\ news.status = "raised"
    /\ expert.status = "pending"
    /\ "summary" \in DOMAIN output

\* C13: when exactly one of the two web queries raised and the other returned
\* hits, only the raising query's hit list counts as empty: web_results is
\* what lines 96-111 make of the other query's hits (with max_results >= 1).
C13_OneWebQueryAbsorbed ==
    (/\ pc \in {"news_query", "assemble", "done"}
     /\ max_results >= 1
     /\ general.status = "returned" /\ expert.status = "raised")
    => web_results = combine_web(general.hits, <<>>, topic, max_results)

\* The news hits are as the backend's contract has them: every dict-shaped
\* hit has a text snippet or none.
NewsHitsWellFormed ==
    \A i \in 1..Len(news.hits) :
       news.hits[i].isdict => news.hits[i].snippet.t \in {"str", "missing"}

\* C14: in a finished call the news query was issued, whatever the web
\* queries did; web_results is what the web queries alone determine (empty
\* when one of them raised), whether the news query raised or returned; the
\* news results of the report are the dict-shaped news hits in order (none
\* when the news query raised), whether a web query raised or not; and with
\* well-formed news hits the call returns a ResearchReport, never a
\* FallbackReport, also when a query raised.
C14_WebNewsIsolated ==
    pc = "done" =>
        /\ news.status \in {"returned", "raised"}
        /\ web_results =
             IF general.status = "returned" /\ expert.status = "returned"
             THEN combine_web(general.hits, expert.hits, topic, max_results)
             ELSE <<>>
        /\ Len(news_results) = Len(DictHits(news.hits))
        /\ \A i \in 1..Len(news_results) :
              /\ news_results[i].title = Get(DictHits(news.hits)[i], "title")
              /\ news_results[i].content = Get(DictHits(news.hits)[i], "snippet")
        /\ NewsHitsWellFormed =>
              /\ DOMAIN output = ResearchKeys
              /\ output.web_results.results = web_results
              /\ output.news_results.results = news_results

\* C14 witness: the expert query raised after the general query had returned
\* a hit, the news query returned a hit, and the report holds no web result
\* and the news result.
C14_Witness ==
    /\ IsResearchReport
    /\ general.status = "returned" /\ general.hits # <<>>
    /\ expert.status = "raised"
    /\ news.status = "returned"
    /\ output.web_results.count = 0
    /\ output.news_results.count = 1

\* A result of the call carries a content that is no text: len(content) of
\* line 169 raises on it.
AssemblyRaises ==
    \E i \in 1..Len(web_results \o news_results) :
       (web_results \o news_results)[i].content.t # "str"

\* C15: when the assembly raises after the search calls, _run returns,
\* without raising, exactly the three fields of a FallbackReport: an error
\* that is "Web search failed: " followed by the non-empty message of the
\* exception, the topic as given, three general insights that each embed the
\* topic, and the five trending themes in their fixed order; no field of a
\* ResearchReport is returned.
C15_FallbackContent ==
    (pc = "done" /\ AssemblyRaises) =>
        /\ ~raised
        /\ DOMAIN output = {"error", "topic", "fallback_insights"}
        /\ Len(output.error) > Len("Web search failed: ")
        /\ SubSeq(output.error, 1, Len("Web search failed: ")) = "Web search failed: "
        /\ output.topic = topic
        /\ Len(output.fallback_insights.general_insights) = 3
        /\ \A i \in 1..3 :
              /\ Contains(topic, output.fallback_insights.general_insights[i])
              /\ output.fallback_insights.general_insights[i] # topic
        /\ output.fallback_insights.trending_themes =
             <<"innovation", "growth", "adoption", "technology", "market">>

\* C15 witness: both web queries returned and gave a web result, the news
\* query returned a hit whose snippet is None, and the call ended in the
\* fallback with the message of len(None).
C15_Witness ==
    /\ pc = "done" /\ AssemblyRaises
    /\ web_results # <<>>
    /\ news.status = "returned"
    /\ output.error = "Web search failed: object of type 'NoneType' has no len()"

----------------------------------------------------------------------------
(* Two calls of _run against a backend that answers each query the same    *)
(* way both times.                                                         *)

\* n hits for the topic, each from a domain of its own: d<from>.io onward.
DomainHits(from, n) ==
    [i \in 1..n |->
        WebHit("Note " \o ToString(from + i - 1), PyStr("agents data"),
               "https://d" \o ToString(from + i - 1) \o ".io/page")]

StubGeneral ==
    {Returned(DomainHits(1, n)) : n \in {0, 1, MaxStubHits}} \cup {Raised}
StubExpert ==
    {Returned(DomainHits(21, n)) : n \in {0, MaxStubHits}} \cup {Raised}
StubNews ==
    {Returned(DomainHits(41, n)) : n \in {0, 2}}
    \cup {Returned(<<NewsHit("No snippet", PyNone, "https://wire.org/1", "Wire",
                             "2024-05-02")>>)}

InitTwice ==
    /\ pc = "call"
    /\ args \in [topic : Topics, max_results : {1, 20}, general : StubGeneral,
                 expert : StubExpert, news : StubNews]
    /\ ret = <<>>
    /\ Idle

\* The first call, in an interpreter started with some hash seed.
CallOnce ==
    /\ pc = "call"
    /\ \E searched \in {run_searches(args.topic, args.max_results, args.general,
                                     args.expert, args.news)} :
       \E now \in Timestamps, hashseed \in HashSeeds :
          ret' = <<[hashseed |-> hashseed,
                    output |-> finish_run(searched, args.topic, now, hashseed)]>>
    /\ pc' = "called_once"
    /\ UNCHANGED <<browser, quit_calls, loaded, keys_sent, topic, max_results, general, expert, news, web_results,
                   news_results, output, raised, args>>

\* The second call in the same interpreter process: the tool object keeps
\* nothing of the first call, and the hash seed is the same.
CallAgain ==
    /\ pc = "called_once"
    /\ \E searched \in {run_searches(args.topic, args.max_results, args.general,
                                     args.expert, args.news)} :
       \E now \in Timestamps :
          ret' = Append(ret,
                    [hashseed |-> ret[1].hashseed,
                     output |-> finish_run(searched, args.topic, now,
                                           ret[1].hashseed)])
    /\ pc' = "called_twice"
    /\ UNCHANGED <<browser, quit_calls, loaded, keys_sent, topic, max_results, general, expert, news, web_results,
                   news_results, output, raised, args>>

\* The second call in a new run of the program: a new interpreter process,
\* with a hash seed of its own.
CallInNewProcess ==
    /\ pc = "called_once"
    /\ \E searched \in {run_searches(args.topic, args.max_results, args.general,
                                     args.expert, args.news)} :
       \E now \in Timestamps, hashseed \in HashSeeds :
          ret' = Append(ret,
                    [hashseed |-> hashseed,
                     output |-> finish_run(searched, args.topic, now, hashseed)])
    /\ pc' = "called_twice"
    /\ UNCHANGED <<browser, quit_calls, loaded, keys_sent, topic, max_results, general, expert, news, web_results,
                   news_results, output, raised, args>>

NextTwice == CallOnce \/ CallAgain \/ CallInNewProcess

SpecTwice == InitTwice /\ [][NextTwice]_vars

\* C16: the outputs of the two calls have the same fields and agree on every
\* one of them except search_performed_at, sources and their order included.
C16_Deterministic ==
    pc = "called_twice" =>
        /\ DOMAIN ret[1].output = DOMAIN ret[2].output
        /\ \A f \in DOMAIN ret[1].output \ {"search_performed_at"} :
              ret[1].output[f] = ret[2].output[f]

----------------------------------------------------------------------------
(* The two LinkedIn scrapers: LinkedInScraperTool of linkedin_scraper.py   *)
(* (the user's own profile) and of linkedin_scraper_new.py (a search by    *)
(* topic; its definitions end in _new where the names are the same).  A    *)
(* character outside ASCII of the source is written "*" here.              *)

\* s.replace(old, new)
replace(s, old, new) == join(new, split_on(s, old))

\* _generate_mock_user_posts keeping all three posts whatever max_posts is.
_generate_mock_user_posts_all(topic_, max_posts) ==
    <<[content |-> "Been diving deep into " \o topic_
                   \o " lately and the learning curve has been intense! Here are 3 key insights I've gained so far...",
       likes |-> "89 likes", comments |-> "12 comments", timestamp |-> "2 days ago"],
      [content |-> "Unpopular opinion: Most people approach " \o topic_
                   \o " completely wrong. Here's what I learned after months of trial and error:",
       likes |-> "156 likes", comments |-> "34 comments", timestamp |-> "1 week ago"],
      [content |-> "Just wrapped up an amazing project involving " \o topic_
                   \o ". The results exceeded all expectations! * Key takeaways:",
       likes |-> "203 likes", comments |-> "28 comments", timestamp |-> "2 weeks ago"]>>

\* linkedin_scraper.py lines 311-334.
_generate_mock_user_posts(topic_, max_posts) ==
    Slice(
    <<[content |-> "Been diving deep into " \o topic_
                   \o " lately and the learning curve has been intense! Here are 3 key insights I've gained so far...",
       likes |-> "89 likes", comments |-> "12 comments", timestamp |-> "2 days ago"],
      [content |-> "Unpopular opinion: Most people approach " \o topic_
                   \o " completely wrong. Here's what I learned after months of trial and error:",
       likes |-> "156 likes", comments |-> "34 comments", timestamp |-> "1 week ago"],
      [content |-> "Just wrapped up an amazing project involving " \o topic_
                   \o ". The results exceeded all expectations! * Key takeaways:",
       likes |-> "203 likes", comments |-> "28 comments", timestamp |-> "2 weeks ago"]>>,
    max_posts)

\* The five templates of linkedin_scraper_new.py lines 278-314.
sample_posts(topic_) ==
    <<[content |-> "Just had an incredible breakthrough with " \o topic_
                   \o "! The possibilities are endless when you combine innovation with dedication. Here's what I learned... *",
       author |-> "Tech Innovator", likes |-> "245 likes",
       comments |-> "23 comments", engagement_rate |-> "high"],
      [content |-> "After 5 years working with " \o topic_
                   \o ", I can confidently say this is the future. Here are 3 key insights that changed my perspective:",
       author |-> "Industry Expert", likes |-> "189 likes",
       comments |-> "31 comments", engagement_rate |-> "medium"],
      [content |-> "Unpopular opinion: " \o topic_
                   \o " is overhyped. But here's why that might actually be a good thing for early adopters...",
       author |-> "Contrarian Thinker", likes |-> "156 likes",
       comments |-> "67 comments", engagement_rate |-> "high"],
      [content |-> "Just implemented " \o topic_
                   \o " at our company. Results after 30 days: * 40% improvement in efficiency. Here's our playbook:",
       author |-> "CEO & Founder", likes |-> "312 likes",
       comments |-> "45 comments", engagement_rate |-> "very_high"],
      [content |-> "The biggest mistake people make with " \o topic_
                   \o "? They focus on the technology instead of the problem it solves. Let me explain...",
       author |-> "Strategy Consultant", likes |-> "98 likes",
       comments |-> "19 comments", engagement_rate |-> "medium"]>>

\* The dict of linkedin_scraper_new.py lines 317-323 for i = n - 1.
mock_post(topic_, n) ==
    [content |-> sample_posts(topic_)[n].content,
     author |-> sample_posts(topic_)[n].author,
     likes |-> sample_posts(topic_)[n].likes,
     comments |-> sample_posts(topic_)[n].comments,
     engagement_rate |-> sample_posts(topic_)[n].engagement_rate,
     post_id |-> "mock_post_" \o ToString(n),
     timestamp |-> "2024-09-" \o ToString(20 - (n - 1)),
     hashtags |-> <<"#" \o replace(topic_, " ", ""), "#Innovation",
                    "#Technology", "#Business">>,
     is_mock_data |-> TRUE]

\* linkedin_scraper_new.py lines 274-325: range(min(max_posts, 5)) is empty
\* for a max_posts below 1.
_generate_mock_linkedin_data(topic_, max_posts) ==
    [n \in 1..(IF max_posts < Len(sample_posts(topic_))
               THEN max_posts ELSE Len(sample_posts(topic_))) |->
        mock_post(topic_, n)]

\* A page as its source reads to the scrapers: the post elements the
\* selectors find, each given by the text its content selectors yield ("" for
\* an element without content).
PageElements ==
    {"", "Too short",
     "A post of more than twenty chars",
     "A long post about agents with clearly more than fifty characters in it."}
Pages == SeqUpTo(PageElements, MaxPageElements)

\* linkedin_scraper.py lines 166-253: None (here <<>>) without content.
_extract_single_post_data(post_element) ==
    IF post_element = "" THEN <<>>
    ELSE <<[content |-> post_element, likes |-> "0", comments |-> "0",
            timestamp |-> "Unknown"]>>

\* linkedin_scraper.py lines 131-164, over the elements posts[1..n].
RECURSIVE _get_linkedin_posts(_, _)
_get_linkedin_posts(posts, n) ==
    IF n = 0 THEN <<>>
    ELSE LET post_data == _extract_single_post_data(posts[n])
         IN  _get_linkedin_posts(posts, n - 1)
             \o (IF post_data # <<>> /\ Len(post_data[1].content) > 50
                 THEN post_data ELSE <<>>)

\* linkedin_scraper.py lines 255-281, of which the model keeps the count of
\* the posts and the fixed recommendations.
_analyze_writing_style(posts) ==
    [total_posts_analyzed |-> Len(posts),
     style_recommendations |->
        <<"Maintain your authentic voice and personal experiences",
          "Keep using your successful content structures",
          "Continue your engaging storytelling approach">>]

\* os.environ: each variable is unset (None), empty, or set.
EnvValues == {PyNone, PyStr(""), PyStr("set")}
ScraperTopics == {"AI agents"}

\* Messages of the exceptions Selenium raises.
NoSuchElement == "no such element"
WebDriverError == "chrome not reachable"

\* linkedin_scraper.py lines 46-51.
credentials_missing(topic_, max_posts) ==
    [error |-> "You need to set the LINKEDIN_EMAIL, LINKEDIN_PASSWORD and LINKEDIN_PROFILE_NAME env variables",
     message |-> "Please add LINKEDIN_EMAIL, LINKEDIN_PASSWORD, and LINKEDIN_PROFILE_NAME to your .env file to analyze your own posts",
     fallback |-> "Using mock data for development",
     mock_data |-> _generate_mock_user_posts(topic_, max_posts)]

\* linkedin_scraper.py lines 53-57.
scrape_failed(msg, topic_, max_posts) ==
    [error |-> "Failed to scrape LinkedIn posts: " \o msg,
     fallback |-> "Using mock data for development",
     mock_data |-> _generate_mock_user_posts(topic_, max_posts)]

\* linkedin_scraper.py lines 86-92.
challenge_detected(topic_, max_posts) ==
    [error |-> "LinkedIn security challenge detected",
     message |-> "LinkedIn requires additional verification. Please login manually once, then try again.",
     suggestion |-> "Try logging in to LinkedIn manually in a browser first to clear any security challenges.",
     fallback |-> "Using mock data for now",
     mock_data |-> _generate_mock_user_posts(topic_, max_posts)]

\* linkedin_scraper.py lines 107-112.
no_posts_found(topic_, max_posts) ==
    [note |-> "No posts found on your profile",
     explanation |-> "Could not extract posts from your LinkedIn profile. Using mock data.",
     fallback |-> "Using mock data for development",
     mock_data |-> _generate_mock_user_posts(topic_, max_posts)]

\* linkedin_scraper.py lines 117-125.
scraped_posts(topic_, user_posts, now, profile) ==
    [topic |-> topic_, posts_found |-> Len(user_posts), user_posts |-> user_posts,
     writing_style_analysis |-> _analyze_writing_style(user_posts),
     scraped_at |-> now, source |-> "user_linkedin_profile", profile |-> profile]

InitScrapers ==
    /\ pc = "credentials"
    /\ topic \in ScraperTopics
    /\ args \in [tool : {"linkedin_scraper", "linkedin_scraper_new"},
                 max_posts : (-1)..MaxPosts,
                 LINKEDIN_EMAIL : EnvValues, LINKEDIN_PASSWORD : EnvValues,
                 LINKEDIN_PROFILE_NAME : EnvValues]
    /\ browser = "none" /\ quit_calls = 0 /\ loaded = <<>> /\ keys_sent = <<>>
    /\ output = <<>> /\ raised = FALSE
    /\ max_results = 0 /\ general = <<>> /\ expert = <<>> /\ news = <<>>
    /\ web_results = <<>> /\ news_results = <<>> /\ ret = <<>>

\* linkedin_scraper.py lines 127-129 and 52-57: an exception inside the try
\* block calls browser.quit(), which may raise in its turn, and the
\* exception that leaves reaches the except clause of _run.
ExceptQuitRaise(msg) ==
    /\ \E quit_raises \in BOOLEAN :
          /\ browser' = IF quit_raises THEN browser ELSE "quit"
          /\ output' = scrape_failed(IF quit_raises THEN WebDriverError ELSE msg,
                                     topic, args.max_posts)
    /\ quit_calls' = quit_calls + 1
    /\ pc' = "done"

\* The check of lines 67-68 without its test of LINKEDIN_PROFILE_NAME.
GetCredentials_without_profile ==
    /\ pc = "credentials" /\ args.tool = "linkedin_scraper"
    /\ IF Truthy(args.LINKEDIN_EMAIL) /\ Truthy(args.LINKEDIN_PASSWORD)
       THEN pc' = "chrome" /\ output' = output
       ELSE pc' = "done" /\ output' = credentials_missing(topic, args.max_posts)
    /\ UNCHANGED <<browser, quit_calls, loaded, keys_sent, topic, max_results,
                   general, expert, news, web_results, news_results, raised,
                   args, ret>>

\* linkedin_scraper.py lines 63-68, and 45-51 when a variable is missing.
GetCredentials ==
    /\ pc = "credentials" /\ args.tool = "linkedin_scraper"
    /\ IF /\ Truthy(args.LINKEDIN_EMAIL) /\ Truthy(args.LINKEDIN_PASSWORD)
          /\ Truthy(args.LINKEDIN_PROFILE_NAME)
       THEN pc' = "chrome" /\ output' = output
       ELSE pc' = "done" /\ output' = credentials_missing(topic, args.max_posts)
    /\ UNCHANGED <<browser, quit_calls, loaded, keys_sent, topic, max_results,
                   general, expert, news, web_results, news_results, raised,
                   args, ret>>

\* linkedin_scraper.py line 70: Chrome starts, or raises into lines 52-57.
StartChrome ==
    /\ pc = "chrome" /\ args.tool = "linkedin_scraper"
    /\ \/ browser' = "open" /\ pc' = "login_page" /\ output' = output
       \/ /\ browser' = browser /\ pc' = "done"
          /\ output' = scrape_failed(WebDriverError, topic, args.max_posts)
    /\ UNCHANGED <<quit_calls, loaded, keys_sent, topic, max_results, general,
                   expert, news, web_results, news_results, raised, args, ret>>

\* linkedin_scraper.py line 73.
LoadLogin ==
    /\ pc = "login_page" /\ args.tool = "linkedin_scraper"
    /\ loaded' = Append(loaded, "https://www.linkedin.com/login")
    /\ \/ pc' = "login_form" /\ UNCHANGED <<browser, quit_calls, output>>
       \/ ExceptQuitRaise(WebDriverError)
    /\ UNCHANGED <<keys_sent, topic, max_results, general, expert, news,
                   web_results, news_results, raised, args, ret>>

\* linkedin_scraper.py lines 75-81: both inputs are found before a key is
\* sent.
FillLogin ==
    /\ pc = "login_form" /\ args.tool = "linkedin_scraper"
    /\ \/ /\ keys_sent' = <<args.LINKEDIN_EMAIL.v, args.LINKEDIN_PASSWORD.v, "RETURN">>
          /\ pc' = "challenge" /\ UNCHANGED <<browser, quit_calls, output>>
       \/ /\ keys_sent' = keys_sent
          /\ ExceptQuitRaise(NoSuchElement)
       \/ /\ keys_sent' = <<args.LINKEDIN_EMAIL.v>>
          /\ ExceptQuitRaise(WebDriverError)
    /\ UNCHANGED <<loaded, topic, max_results, general, expert, news,
                   web_results, news_results, raised, args, ret>>

\* linkedin_scraper.py lines 84-92: on a challenge url browser.quit() and the
\* mock data; a browser.quit() that raises there is called again at line 128.
CheckChallenge ==
    /\ pc = "challenge" /\ args.tool = "linkedin_scraper"
    /\ \/ pc' = "activity" /\ UNCHANGED <<browser, quit_calls, output>>
       \/ /\ browser' = "quit" /\ quit_calls' = quit_calls + 1
          /\ output' = challenge_detected(topic, args.max_posts)
          /\ pc' = "done"
       \/ \E quit_raises \in BOOLEAN :
             /\ browser' = IF quit_raises THEN browser ELSE "quit"
             /\ quit_calls' = quit_calls + 2
             /\ output' = scrape_failed(WebDriverError, topic, args.max_posts)
             /\ pc' = "done"
       \/ ExceptQuitRaise(WebDriverError)
    /\ UNCHANGED <<loaded, keys_sent, topic, max_results, general, expert, news,
                   web_results, news_results, raised, args, ret>>

\* linkedin_scraper.py lines 94-98.
OpenActivity ==
    /\ pc = "activity" /\ args.tool = "linkedin_scraper"
    /\ loaded' = Append(loaded, "https://www.linkedin.com/in/"
                                \o args.LINKEDIN_PROFILE_NAME.v
                                \o "/recent-activity/all/")
    /\ \/ pc' = "extract" /\ UNCHANGED <<browser, quit_calls, output>>
       \/ ExceptQuitRaise(WebDriverError)
    /\ UNCHANGED <<keys_sent, topic, max_results, general, expert, news,
                   web_results, news_results, raised, args, ret>>

\* linkedin_scraper.py lines 100-125: the posts are extracted, browser.quit()
\* is called, and the posts or the mock data are returned; a browser.quit()
\* that raises at line 101 is called again at line 128.
ExtractPosts ==
    /\ pc = "extract" /\ args.tool = "linkedin_scraper"
    /\ \/ \E page \in Pages, now \in Timestamps :
             LET posts == _get_linkedin_posts(page, Len(page))
                 user_posts == IF posts # <<>> THEN Slice(posts, args.max_posts)
                               ELSE <<>>
             IN  /\ browser' = "quit" /\ quit_calls' = quit_calls + 1
                 /\ output' = IF user_posts = <<>>
                              THEN no_posts_found(topic, args.max_posts)
                              ELSE scraped_posts(topic, user_posts, now,
                                                 args.LINKEDIN_PROFILE_NAME.v)
                 /\ pc' = "done"
       \/ \E quit_raises \in BOOLEAN :
             /\ browser' = IF quit_raises THEN browser ELSE "quit"
             /\ quit_calls' = quit_calls + 2
             /\ output' = scrape_failed(WebDriverError, topic, args.max_posts)
             /\ pc' = "done"
       \/ ExceptQuitRaise(WebDriverError)
    /\ UNCHANGED <<loaded, keys_sent, topic, max_results, general, expert, news,
                   web_results, news_results, raised, args, ret>>

\* linkedin_scraper_new.py lines 172-272: None (here <<>>) unless the content
\* is longer than 20 characters.
_extract_single_post_data_new(post_element) ==
    LET content == IF post_element # "" THEN post_element
                   ELSE "Content not accessible"
    IN  IF content # "" /\ content # "Content not accessible" /\ Len(content) > 20
        THEN <<[content |-> content, author |-> "Unknown Author", likes |-> "0",
                comments |-> "0", timestamp |-> "Unknown"]>>
        ELSE <<>>

\* The loop of linkedin_scraper_new.py lines 155-165 from element i on, with
\* its break.
RECURSIVE extract_loop(_, _, _, _)
extract_loop(posts, i, posts_data, max_posts) ==
    IF i > Len(posts) THEN posts_data
    ELSE LET appended == posts_data \o _extract_single_post_data_new(posts[i])
         IN  IF Len(appended) >= max_posts THEN appended
             ELSE extract_loop(posts, i + 1, appended, max_posts)

\* linkedin_scraper_new.py lines 135-170.
_extract_posts_from_page(page_source, max_posts) ==
    extract_loop(Slice(page_source, max_posts), 1, <<>>, max_posts)

\* linkedin_scraper_new.py lines 48-53.
credentials_missing_new(topic_, max_posts) ==
    [error |-> "LinkedIn credentials not found",
     message |-> "Please add LINKEDIN_EMAIL and LINKEDIN_PASSWORD to your .env file to access real LinkedIn posts",
     fallback |-> "Using mock data for development",
     mock_data |-> _generate_mock_linkedin_data(topic_, max_posts)]

\* linkedin_scraper_new.py lines 80-86.
challenge_detected_new(topic_, max_posts) ==
    [error |-> "LinkedIn security challenge detected",
     message |-> "LinkedIn requires additional verification. Please login manually once, then try again.",
     suggestion |-> "Try logging in to LinkedIn manually in a browser first to clear any security challenges.",
     fallback |-> "Using mock data for now",
     mock_data |-> _generate_mock_linkedin_data(topic_, max_posts)]

\* linkedin_scraper_new.py lines 104-109.
no_posts_found_new(topic_, max_posts) ==
    [note |-> "No posts found or access restricted",
     explanation |-> "Could not extract posts from LinkedIn search results. Using mock data.",
     fallback |-> "Using mock data for development",
     mock_data |-> _generate_mock_linkedin_data(topic_, max_posts)]

\* linkedin_scraper_new.py lines 111-117.
scraped_posts_new(topic_, posts_data, now) ==
    [topic |-> topic_, posts_found |-> Len(posts_data), posts |-> posts_data,
     scraped_at |-> now, source |-> "real_linkedin_data"]

\* linkedin_scraper_new.py lines 121-126.
scraping_failed_new(msg, topic_, max_posts) ==
    [error |-> "LinkedIn scraping failed: " \o msg,
     message |-> "Could not scrape LinkedIn posts. Check your credentials and try again.",
     fallback |-> "Using mock data for development",
     mock_data |-> _generate_mock_linkedin_data(topic_, max_posts)]

\* linkedin_scraper_new.py lines 129-133.
initialize_failed_new(msg, topic_, max_posts) ==
    [error |-> "Failed to initialize LinkedIn scraper: " \o msg,
     fallback |-> "Using mock data for development",
     mock_data |-> _generate_mock_linkedin_data(topic_, max_posts)]

\* linkedin_scraper_new.py lines 119-133: an exception inside the inner try
\* block calls browser.quit() and returns the mock data; a browser.quit()
\* that raises there reaches the outer except clause.
ExceptQuitReturnNew(msg) ==
    /\ \E quit_raises \in BOOLEAN :
          /\ browser' = IF quit_raises THEN browser ELSE "quit"
          /\ output' = IF quit_raises
                       THEN initialize_failed_new(WebDriverError, topic,
                                                  args.max_posts)
                       ELSE scraping_failed_new(msg, topic, args.max_posts)
    /\ quit_calls' = quit_calls + 1
    /\ pc' = "done"

\* linkedin_scraper_new.py lines 44-53.
GetCredentialsNew ==
    /\ pc = "credentials" /\ args.tool = "linkedin_scraper_new"
    /\ IF Truthy(args.LINKEDIN_EMAIL) /\ Truthy(args.LINKEDIN_PASSWORD)
       THEN pc' = "chrome" /\ output' = output
       ELSE /\ pc' = "done"
            /\ output' = credentials_missing_new(topic, args.max_posts)
    /\ UNCHANGED <<browser, quit_calls, loaded, keys_sent, topic, max_results,
                   general, expert, news, web_results, news_results, raised,
                   args, ret>>

\* linkedin_scraper_new.py lines 56-61: Chrome starts through the driver
\* manager or, failing that, by default; when both fail, lines 128-133.
StartChromeNew ==
    /\ pc = "chrome" /\ args.tool = "linkedin_scraper_new"
    /\ \/ browser' = "open" /\ pc' = "login_page" /\ output' = output
       \/ /\ browser' = browser /\ pc' = "done"
          /\ output' = initialize_failed_new(WebDriverError, topic, args.max_posts)
    /\ UNCHANGED <<quit_calls, loaded, keys_sent, topic, max_results, general,
                   expert, news, web_results, news_results, raised, args, ret>>

\* linkedin_scraper_new.py lines 65-66.
LoadLoginNew ==
    /\ pc = "login_page" /\ args.tool = "linkedin_scraper_new"
    /\ loaded' = Append(loaded, "https://www.linkedin.com/login")
    /\ \/ pc' = "login_form" /\ UNCHANGED <<browser, quit_calls, output>>
       \/ ExceptQuitReturnNew(WebDriverError)
    /\ UNCHANGED <<keys_sent, topic, max_results, general, expert, news,
                   web_results, news_results, raised, args, ret>>

\* linkedin_scraper_new.py lines 69-75.
FillLoginNew ==
    /\ pc = "login_form" /\ args.tool = "linkedin_scraper_new"
    /\ \/ /\ keys_sent' = <<args.LINKEDIN_EMAIL.v, args.LINKEDIN_PASSWORD.v, "RETURN">>
          /\ pc' = "challenge" /\ UNCHANGED <<browser, quit_calls, output>>
       \/ /\ keys_sent' = keys_sent
          /\ ExceptQuitReturnNew(NoSuchElement)
       \/ /\ keys_sent' = <<args.LINKEDIN_EMAIL.v>>
          /\ ExceptQuitReturnNew(WebDriverError)
    /\ UNCHANGED <<loaded, topic, max_results, general, expert, news,
                   web_results, news_results, raised, args, ret>>

\* linkedin_scraper_new.py lines 78-86: a browser.quit() that raises at line
\* 79 is called again at line 120.
CheckChallengeNew ==
    /\ pc = "challenge" /\ args.tool = "linkedin_scraper_new"
    /\ \/ pc' = "search" /\ UNCHANGED <<browser, quit_calls, output>>
       \/ /\ browser' = "quit" /\ quit_calls' = quit_calls + 1
          /\ output' = challenge_detected_new(topic, args.max_posts)
          /\ pc' = "done"
       \/ \E quit_raises \in BOOLEAN :
             /\ browser' = IF quit_raises THEN browser ELSE "quit"
             /\ quit_calls' = quit_calls + 2
             /\ output' = IF quit_raises
                          THEN initialize_failed_new(WebDriverError, topic,
                                                     args.max_posts)
                          ELSE scraping_failed_new(WebDriverError, topic,
                                                   args.max_posts)
             /\ pc' = "done"
       \/ ExceptQuitReturnNew(WebDriverError)
    /\ UNCHANGED <<loaded, keys_sent, topic, max_results, general, expert, news,
                   web_results, news_results, raised, args, ret>>

\* linkedin_scraper_new.py lines 89-96.
OpenSearchNew ==
    /\ pc = "search" /\ args.tool = "linkedin_scraper_new"
    /\ loaded' = Append(loaded,
                    "https://www.linkedin.com/search/results/content/?keywords="
                    \o replace(topic, " ", "%20")
                    \o "&origin=GLOBAL_SEARCH_HEADER&sortBy=date")
    /\ \/ pc' = "extract" /\ UNCHANGED <<browser, quit_calls, output>>
       \/ ExceptQuitReturnNew(WebDriverError)
    /\ UNCHANGED <<keys_sent, topic, max_results, general, expert, news,
                   web_results, news_results, raised, args, ret>>

\* linkedin_scraper_new.py lines 99-117: a browser.quit() that raises at line
\* 101 is called again at line 120.
ExtractPostsNew ==
    /\ pc = "extract" /\ args.tool = "linkedin_scraper_new"
    /\ \/ \E page \in Pages, now \in Timestamps :
             LET posts_data == _extract_posts_from_page(page, args.max_posts)
             IN  /\ browser' = "quit" /\ quit_calls' = quit_calls + 1
                 /\ output' = IF posts_data = <<>>
                              THEN no_posts_found_new(topic, args.max_posts)
                              ELSE scraped_posts_new(topic, posts_data, now)
                 /\ pc' = "done"
       \/ \E quit_raises \in BOOLEAN :
             /\ browser' = IF quit_raises THEN browser ELSE "quit"
             /\ quit_calls' = quit_calls + 2
             /\ output' = IF quit_raises
                          THEN initialize_failed_new(WebDriverError, topic,
                                                     args.max_posts)
                          ELSE scraping_failed_new(WebDriverError, topic,
                                                   args.max_posts)
             /\ pc' = "done"
       \/ ExceptQuitReturnNew(WebDriverError)
    /\ UNCHANGED <<loaded, keys_sent, topic, max_results, general, expert, news,
                   web_results, news_results, raised, args, ret>>

NextScrapers ==
    \/ GetCredentials \/ StartChrome \/ LoadLogin \/ FillLogin
    \/ CheckChallenge \/ OpenActivity \/ ExtractPosts
    \/ GetCredentialsNew \/ StartChromeNew \/ LoadLoginNew \/ FillLoginNew
    \/ CheckChallengeNew \/ OpenSearchNew \/ ExtractPostsNew

SpecScrapers == InitScrapers /\ [][NextScrapers]_vars

----------------------------------------------------------------------------
(* Properties of the scrapers, checked under SpecScrapers.                 *)

\* The number of mock templates of the tool that ran.
MockTemplates == IF args.tool = "linkedin_scraper" THEN 3 ELSE 5

\* The call went through every step: both pages loaded, the login typed,
\* and the browser quit by a single call.
ScrapeCompleted ==
    /\ Len(loaded) = 2 /\ Len(keys_sent) = 3
    /\ browser = "quit" /\ quit_calls = 1

\* What _run returned carries a mock_data list whose entries each embed the
\* topic, at most as many as there are templates.
CarriesMockData ==
    /\ "mock_data" \in DOMAIN output
    /\ Len(output.mock_data) <= MockTemplates
    /\ \A i \in 1..Len(output.mock_data) :
          Contains(topic, output.mock_data[i].content)

BrowserCreated == browser # "none"

RequiredVariables ==
    IF args.tool = "linkedin_scraper"
    THEN {"LINKEDIN_EMAIL", "LINKEDIN_PASSWORD", "LINKEDIN_PROFILE_NAME"}
    ELSE {"LINKEDIN_EMAIL", "LINKEDIN_PASSWORD"}

\* Every required variable is set and not empty.
AllFound ==
    \A v \in RequiredVariables : args[v].t = "str" /\ args[v].v # ""

\* C22: when a required environment variable is unset or empty, the call
\* never leaves the credential check but to return: no browser is created,
\* no page loaded, nothing typed, and what _run returns is the mock data with
\* an error field; a browser exists only when every required variable was
\* found non-empty.
C22_CredentialsFirst ==
    /\ ~AllFound =>
          /\ pc \in {"credentials", "done"}
          /\ ~BrowserCreated /\ quit_calls = 0
          /\ loaded = <<>> /\ keys_sent = <<>>
          /\ pc = "done" =>
                /\ ~raised
                /\ "error" \in DOMAIN output /\ "fallback" \in DOMAIN output
                /\ CarriesMockData
    /\ BrowserCreated => AllFound

\* C22 witness: the profile scraper with the email and the password set and
\* an empty LINKEDIN_PROFILE_NAME returned the mock data with the error of
\* the missing variables, and no browser was created.
C22_Witness ==
    /\ pc = "done" /\ args.tool = "linkedin_scraper"
    /\ args.LINKEDIN_EMAIL = PyStr("set") /\ args.LINKEDIN_PASSWORD = PyStr("set")
    /\ args.LINKEDIN_PROFILE_NAME = PyStr("")
    /\ output = credentials_missing(topic, args.max_posts)
    /\ ~BrowserCreated /\ loaded = <<>> /\ keys_sent = <<>>

----------------------------------------------------------------------------
(* _extract_key_findings applied as line 68 of web_research.py applies it, *)
(* to web_results + news_results, on lists longer than 8.                  *)

\* The one sentence of the result of a kind at position i of its list: a key
\* sentence or one the condition of lines 173-175 rejects.
ScanSentence(kind, i, key) ==
    IF key
    THEN kind \o " result " \o ToString(i)
         \o " reports strong growth of the market in every region"
    ELSE kind \o " result " \o ToString(i)
         \o " has nothing to say about the subject at all, really"

\* n results of a kind; those at the positions from + 1 .. from + n of the
\* combined list that are in keyed hold a key sentence.  News results score
\* higher than web results.
ScanResults(kind, n, from, keyed) ==
    [i \in 1..n |->
        [title |-> PyStr(""), content |-> PyStr(ScanSentence(kind, i, (from + i) \in keyed)),
         url |-> PyStr(""), type |-> kind,
         relevance |-> IF kind = "news" THEN 9 ELSE 2]]

InitFirstEight ==
    /\ pc = "call"
    /\ \E w \in 7..MaxScanWeb, n \in 0..MaxScanNews :
       \E keyed \in {K \in SUBSET (1..(w + n)) : Cardinality(K) <= 2} :
          args = [web_results |-> ScanResults("web_search", w, 0, keyed),
                  news_results |-> ScanResults("news", n, w, keyed),
                  topic |-> "AI agents"]
    /\ ret = <<>>
    /\ Idle

CallFirstEight ==
    /\ pc = "call"
    /\ ret' = _extract_key_findings(args.web_results \o args.news_results,
                                    args.topic)
    /\ pc' = "return"
    /\ UNCHANGED <<browser, quit_calls, loaded, keys_sent, topic, max_results,
                   general, expert, news, web_results, news_results, output,
                   raised, args>>

SpecFirstEight == InitFirstEight /\ [][CallFirstEight]_vars

\* C18: every finding is the sentence of one of the first 8 entries of
\* web_results followed by news_results; the sentence of an entry at
\* position 9 or later is no finding; and with 8 or more web results no
\* sentence of a news result is a finding.
C18_FirstEightOnly ==
    pc = "return" =>
        LET results == args.web_results \o args.news_results
        IN  /\ ~ret.raised
            /\ \A k \in 1..Len(ret.value) :
                  \E i \in 1..Len(results) :
                     i <= 8 /\ ret.value[k] = results[i].content.v
            /\ \A i \in 1..Len(results) :
                  i >= 9 => results[i].content.v \notin Range(ret.value)
            /\ Len(args.web_results) >= 8 =>
                  \A j \in 1..Len(args.news_results) :
                     args.news_results[j].content.v \notin Range(ret.value)

\* C18 witness: 8 web results, the last with a key sentence, and a news
\* result with a key sentence at position 9: the single finding is the web
\* result's, although five more would fit.
C18_Witness ==
    /\ pc = "return"
    /\ Len(args.web_results) = 8 /\ Len(args.news_results) >= 1
    /\ is_key_sentence(args.news_results[1].content.v, args.topic)
    /\ ret.value = <<args.web_results[8].content.v>>

----------------------------------------------------------------------------
(* Source extraction item by item, checked under SpecSources.              *)

\* C19: when at most 10 distinct entries arise, every result with a
\* non-empty url has its entry in the sources: the network location of its
\* url, or the url itself.
C19_EveryUrlHasEntry ==
    (pc = "return" /\ Len(source_loop(args.results, Len(args.results))) <= 10) =>
        \A url \in UrlsOf(args.results) :
           \E k \in 1..Len(ret) : IsNetlocOf(ret[k], url) \/ ret[k] = url

----------------------------------------------------------------------------
(* Two invocations of _run running concurrently in one interpreter: each   *)
(* has its own frame of locals, and their steps interleave at the backend  *)
(* queries.  The tool object has no attribute either of them writes.       *)

\* What the backend answers to the three queries of one invocation.
StubCalls ==
    [topic : {"AI agents", "drones"}, max_results : {2},
     general : {Returned(DomainHits(1, 2)), Raised},
     expert : {Returned(<<WebHit("Drones", PyStr("drones report 2024"),
                                 "https://air.org/x")>>), Raised},
     news : {Returned(DomainHits(41, 1)), Raised}]

\* The frame of an invocation that has not yet issued a query.
NewFrame ==
    [pc |-> "general_query", results |-> <<>>, web_results |-> <<>>,
     news_results |-> <<>>, output |-> <<>>]

\* A local of invocation i written to every frame, as an attribute of the
\* shared tool object would be.
store_shared(frames, i, name, value) ==
    [j \in DOMAIN frames |-> [frames[j] EXCEPT ![name] = value]]

\* The assignment name = value to a local of invocation i.
store(frames, i, name, value) == [frames EXCEPT ![i][name] = value]

InitConcurrent ==
    /\ pc = "threads"
    /\ args \in [hashseed : HashSeeds, calls : [1..2 -> StubCalls]]
    /\ ret = [frames |-> [i \in 1..2 |-> NewFrame], overlapped |-> FALSE]
    /\ Idle

\* Invocation i takes a step while the other one is between its first query
\* and its return.
Overlaps(i) ==
    \E j \in 1..2 : j # i /\ ret.frames[j].pc \notin {"general_query", "done"}

\* The step of invocation i that leaves frames_ behind and moves it to next.
Step(i, frames_, next) ==
    /\ ret' = [frames |-> store(frames_, i, "pc", next),
               overlapped |-> ret.overlapped \/ Overlaps(i)]
    /\ UNCHANGED <<browser, quit_calls, loaded, keys_sent, topic, max_results,
                   general, expert, news, web_results, news_results, output,
                   raised, args, pc>>

\* Line 90 in invocation i: the general query returns, or raises into lines
\* 113-114.
ThreadGeneral(i) ==
    /\ ret.frames[i].pc = "general_query"
    /\ IF args.calls[i].general.status = "raised"
       THEN Step(i, store(ret.frames, i, "web_results", <<>>), "news_query")
       ELSE Step(i, store(ret.frames, i, "results", args.calls[i].general.hits),
                 "expert_query")

\* Lines 94-111 in invocation i.
ThreadExpert(i) ==
    /\ ret.frames[i].pc = "expert_query"
    /\ Step(i, store(ret.frames, i, "web_results",
                     IF args.calls[i].expert.status = "raised" THEN <<>>
                     ELSE combine_web(ret.frames[i].results,
                                      args.calls[i].expert.hits,
                                      args.calls[i].topic,
                                      args.calls[i].max_results)),
            "news_query")

\* Lines 121-140 in invocation i.
ThreadNews(i) ==
    /\ ret.frames[i].pc = "news_query"
    /\ Step(i, store(ret.frames, i, "news_results",
                     _search_news(args.calls[i].news, args.calls[i].topic)),
            "assemble")

\* Lines 57-81 in invocation i.
ThreadAssemble(i) ==
    /\ ret.frames[i].pc = "assemble"
    /\ \E searched \in
          {[fields |-> research_fields(ret.frames[i].web_results,
                                       ret.frames[i].news_results,
                                       args.calls[i].topic),
            members |-> source_loop(ret.frames[i].web_results
                                    \o ret.frames[i].news_results,
                                    Len(ret.frames[i].web_results
                                        \o ret.frames[i].news_results))]} :
       \E now \in Timestamps :
          Step(i, store(ret.frames, i, "output",
                        finish_run(searched, args.calls[i].topic, now,
                                   args.hashseed)),
               "done")

NextConcurrent ==
    \E i \in 1..2 :
       ThreadGeneral(i) \/ ThreadExpert(i) \/ ThreadNews(i) \/ ThreadAssemble(i)

SpecConcurrent == InitConcurrent /\ [][NextConcurrent]_vars

\* A report without its timestamp.
SansTimestamp(report) ==
    [f \in DOMAIN report \ {"search_performed_at"} |-> report[f]]

=============================================================================
